---- MODULE Spec2Model ----
(***************************************************************************)
(* InvoTrack: the document finalization and POS synchronization pipeline.  *)
(*                                                                         *)
(* The specifications share the store (suppliers, inventory, documents):   *)
(*   SpecFlow   - the resolution flow of the edit-invoice page             *)
(*                (useDialogFlow + EditInvoiceContent), its asynchronous   *)
(*                continuations and the save that ends in finalize;        *)
(*   SpecMatch  - the same flow over stores with a second supplier and a   *)
(*                deactivated product, and scans that carry a tax id;      *)
(*   SpecFin    - finalizeSaveProductsService step by step: the            *)
(*                transaction, its commit or abort, and the POS relay;     *)
(*   SpecRepeat - SpecFin with finalize called again for the same scan;    *)
(*   SpecPair   - SpecFin's transaction next to the finalize call of        *)
(*                another session of the same user;                        *)
(*   SpecScan   - scanDocument: the retry loop and the supplier lookup;    *)
(*   SpecPrice  - the price check and the new-product filter on the line   *)
(*                items of a scan;                                         *)
(*   SpecSvc    - getPosAdapter and the inventory services;                *)
(*   SpecSnapshot - a finalize call for another document and the product   *)
(*                services, on a store with a completed document.          *)
(***************************************************************************)
EXTENDS Integers, Sequences, FiniteSets, TLC

(***************************************************************************)
(* Bounds of the model.                                                    *)
(***************************************************************************)
MaxPending == 2      \* asynchronous continuations in flight at once
MaxCalls == 1        \* finalize calls in SpecFin
MaxAttempts == 2     \* runs of the transaction callback per finalize call
MaxRepeats == 1      \* further finalize calls with the same arguments in SpecRepeat

(***************************************************************************)
(* Values.                                                                 *)
(***************************************************************************)
Absent == "absent"            \* null / undefined of a string-valued field
NullAmount == 0 - 1           \* null of FinalizeInvoiceData.totalAmount
Missing == "missing"          \* a field the stored document does not have

Steps ==
  {"idle", "processing", "supplier_payment_details", "new_product_details",
   "prompt_link_invoice", "prompt_link_delivery_notes", "ready_to_save",
   "error_loading"}

DocTypes == {"deliveryNote", "invoice", "invoiceReceipt", "receipt"}

SupplierIdPool == <<"s1", "s2", "s3", "s4">>
ProductIdPool == <<"p1", "p2", "p3", "p4", "p5">>
DocumentIdPool == <<"d1", "d2", "d3", "d4", "d5">>

EmptyMap == [x \in {} |-> Absent]

\* doc(collectionRef): an auto-generated id no document of the collection has
FreshId(pool, used) ==
  pool[CHOOSE i \in DOMAIN pool :
         /\ pool[i] \notin used
         /\ \A j \in DOMAIN pool : pool[j] \notin used => i <= j]

Merge(old, new) ==
  [f \in DOMAIN old \cup DOMAIN new |->
     IF f \in DOMAIN new THEN new[f] ELSE old[f]]

\* a || 0 on an amount
AmountOr0(a) == IF a = NullAmount THEN 0 ELSE a

(***************************************************************************)
(* The store: one user's suppliers, inventory and documents collections,   *)
(* each a function from the ids of its documents to their fields.          *)
(***************************************************************************)
VARIABLES suppliers, inventory, documents

Store == [suppliers |-> suppliers, inventory |-> inventory, documents |-> documents]

\* fields a document read back from the store has when finalize never set them
SupplierDefaults ==
  [name |-> Absent, osekMorshe |-> Absent, paymentTerms |-> Absent,
   totalSpent |-> 0, invoiceCount |-> 0, posRefs |-> EmptyMap]

ProductDefaults ==
  [id |-> Absent, catalogNumber |-> Absent, barcode |-> Absent,
   isActive |-> TRUE, posRefs |-> EmptyMap]

DocumentDefaults ==
  [status |-> "pending", documentType |-> Absent, supplierName |-> Absent,
   supplierId |-> Absent, totalAmount |-> 0, paymentStatus |-> Absent,
   products |-> << >>, linkedInvoiceId |-> Absent, linkedDeliveryNoteIds |-> {},
   paymentTerms |-> Absent, syncStatus |-> Absent, posRefs |-> EmptyMap,
   linkedToInvoiceId |-> Missing]

CollDefaults(coll) ==
  CASE coll = "suppliers" -> SupplierDefaults
    [] coll = "inventory" -> ProductDefaults
    [] coll = "documents" -> DocumentDefaults

\* One write: set (create or replace), merge (set with {merge: true}) or
\* update (fails when the document does not exist).
WriteOk(st, w) == w.op = "update" => w.id \in DOMAIN st[w.coll]

ApplyWrite(st, w) ==
  LET col == st[w.coll]
      old == IF w.id \in DOMAIN col /\ w.op # "set" THEN col[w.id]
             ELSE CollDefaults(w.coll)
      new == Merge(old, w.data)
  IN [st EXCEPT ![w.coll] =
        [i \in DOMAIN col \cup {w.id} |-> IF i = w.id THEN new ELSE col[i]]]

RECURSIVE ApplyWrites(_, _)
ApplyWrites(st, ws) ==
  IF ws = << >> THEN st ELSE ApplyWrites(ApplyWrite(st, Head(ws)), Tail(ws))

\* a commit applies every staged write or none
WritesOk(st, ws) == \A i \in DOMAIN ws : WriteOk(st, ws[i])

StagedIds(ws, coll) == {ws[i].id : i \in {j \in DOMAIN ws : ws[j].coll = coll}}

(***************************************************************************)
(* finalizeSaveProductsService: what the transaction callback stages.      *)
(***************************************************************************)
ProdTempIds == {"prod-temp-1", "prod-temp-2"}
\* _originalId.startsWith("prod-temp-")
StartsWithProdTemp(id) == id \in ProdTempIds

\* getDocs(query(suppliers, where("name", "==", supplierName), limit(1)))
SupplierByName(sups, name) ==
  LET hits == {i \in DOMAIN SupplierIdPool :
                 /\ SupplierIdPool[i] \in DOMAIN sups
                 /\ sups[SupplierIdPool[i]].name = name}
  IN IF hits = {} THEN Absent
     ELSE SupplierIdPool[CHOOSE i \in hits : \A j \in hits : i <= j]

\* the supplier the callback writes to: the one found by name, or a new one
FinalSupplierId(st, existing) ==
  IF existing # Absent THEN existing
  ELSE FreshId(SupplierIdPool, DOMAIN st.suppliers)

\* a supplier write that sets the counters of an existing supplier from this
\* invoice alone
SupplierWriteOverwriting(st, data, existing) ==
  [coll |-> "suppliers",
   op |-> IF existing # Absent THEN "update" ELSE "set",
   id |-> FinalSupplierId(st, existing),
   data |-> IF existing # Absent
            THEN [totalSpent |-> AmountOr0(data.totalAmount),
                  invoiceCount |-> 1]
            ELSE [name |-> data.supplierName,
                  totalSpent |-> AmountOr0(data.totalAmount),
                  invoiceCount |-> 1,
                  paymentTerms |-> data.paymentTerms,
                  osekMorshe |-> data.osekMorshe,
                  posRefs |-> EmptyMap]]

SupplierWrite(st, data, existing) ==
  IF existing # Absent
  THEN [coll |-> "suppliers", op |-> "update", id |-> existing,
        data |-> [totalSpent |-> st.suppliers[existing].totalSpent
                                   + AmountOr0(data.totalAmount),
                  invoiceCount |-> st.suppliers[existing].invoiceCount + 1]]
  ELSE [coll |-> "suppliers", op |-> "set",
        id |-> FinalSupplierId(st, existing),
        data |-> [name |-> data.supplierName,
                  totalSpent |-> AmountOr0(data.totalAmount),
                  invoiceCount |-> 1,
                  paymentTerms |-> data.paymentTerms,
                  osekMorshe |-> data.osekMorshe,
                  posRefs |-> EmptyMap]]

\* const { _originalId, ...productData } = product
ProductData(product) ==
  [f \in DOMAIN product \ {"_originalId"} |-> product[f]]

IsUpdateOfExisting(product) ==
  product._originalId # Absent /\ ~StartsWithProdTemp(product._originalId)

\* the id of the inventory document a line item is written to
ProductRefId(st, staged, product) ==
  IF IsUpdateOfExisting(product) THEN product._originalId
  ELSE FreshId(ProductIdPool,
               DOMAIN st.inventory \cup StagedIds(staged, "inventory"))

ProductWrite(st, staged, product) ==
  IF IsUpdateOfExisting(product)
  THEN [coll |-> "inventory", op |-> "update", id |-> product._originalId,
        data |-> Merge(ProductData(product), [isActive |-> TRUE])]
  ELSE [coll |-> "inventory", op |-> "set",
        id |-> ProductRefId(st, staged, product),
        data |-> Merge(ProductData(product),
                       [id |-> ProductRefId(st, staged, product),
                        isActive |-> TRUE])]

\* the entry pushed on savedOrUpdatedProducts for a line item
SavedProduct(st, staged, product) ==
  Merge(ProductData(product), [id |-> ProductRefId(st, staged, product)])

\* a paymentStatus that is unpaid for delivery notes only
PaymentStatusPaidUnlessDeliveryNote(docType) ==
  IF docType = "deliveryNote" THEN "unpaid" ELSE "paid"

PaymentStatusOf(docType) ==
  IF docType = "receipt" \/ docType = "invoiceReceipt" THEN "paid" ELSE "unpaid"

FinalInvoiceId(st, data) ==
  IF data.existingDocumentId # Absent THEN data.existingDocumentId
  ELSE FreshId(DocumentIdPool, DOMAIN st.documents)

\* const invoiceData: Invoice = {...}
InvoiceData(data, supplierId, saved) ==
  [status |-> "completed",
   documentType |-> data.docType,
   supplierName |-> data.supplierName,
   supplierId |-> supplierId,
   totalAmount |-> AmountOr0(data.totalAmount),
   paymentStatus |-> PaymentStatusOf(data.docType),
   products |-> saved,
   linkedDeliveryNoteIds |-> {},
   linkedInvoiceId |-> Absent,
   paymentTerms |-> data.paymentTerms]

DocumentWrite(st, data, supplierId, saved) ==
  [coll |-> "documents", op |-> "merge", id |-> FinalInvoiceId(st, data),
   data |-> InvoiceData(data, supplierId, saved)]

\* for (const product of products) {...}: the writes and the
\* savedOrUpdatedProducts entries of the whole loop
RECURSIVE StageProducts(_, _, _, _)
StageProducts(st, staged, saved, products) ==
  IF products = << >> THEN [staged |-> staged, saved |-> saved]
  ELSE StageProducts(st,
                     Append(staged, ProductWrite(st, staged, Head(products))),
                     Append(saved, SavedProduct(st, staged, Head(products))),
                     Tail(products))

\* One run of the transaction callback against the store it reads, with
\* savedOrUpdatedProducts as it stands when the run starts.
CallbackWrites(st, data, savedBefore) ==
  LET existing == SupplierByName(st.suppliers, data.supplierName)
      sw == SupplierWrite(st, data, existing)
      ps == StageProducts(st, <<sw>>, savedBefore, data.products)
      dw == DocumentWrite(st, data, FinalSupplierId(st, existing), ps.saved)
  IN [writes |-> Append(ps.staged, dw), saved |-> ps.saved,
      supplierId |-> FinalSupplierId(st, existing), docId |-> dw.id,
      record |-> dw.data]

\* the checks of finalize without the one on supplierName
PreconditionsWithoutSupplierName(data) == data.userId # Absent

\* if (!userId) throw ...; if (!supplierName) throw ...
FinalizePreconditions(data) ==
  data.userId # Absent /\ data.supplierName # Absent

\* finalize as one step, for the callers that only see its result: the
\* transaction commits every write or throws, the relay is left to SpecFin
FinalizeOutcome(st, data) ==
  IF ~FinalizePreconditions(data) THEN [ok |-> FALSE, store |-> st, docId |-> Absent]
  ELSE LET cb == CallbackWrites(st, data, << >>)
       IN IF WritesOk(st, cb.writes)
          THEN [ok |-> TRUE, store |-> ApplyWrites(st, cb.writes), docId |-> cb.docId]
          ELSE [ok |-> FALSE, store |-> st, docId |-> Absent]

(***************************************************************************)
(* One call of finalizeSaveProductsService in progress, and what surrounds *)
(* it: the user's POS settings and the history the properties refer to.    *)
(***************************************************************************)
VARIABLES
  call,   \* the locals of the call and the step it is at
  env     \* POS settings, the arguments of the call, counters and snapshots

finVars == <<call, env>>

NoCall ==
  [pc |-> "idle", attempts |-> 0, existing |-> Absent, readStore |-> Absent,
   writes |-> << >>, saved |-> << >>, supplierId |-> Absent,
   docId |-> Absent, record |-> Absent, committed |-> FALSE,
   outcome |-> Absent, posSupplierId |-> Absent, i |-> 0,
   adapterCalls |-> 0, adapterOks |-> 0]

\* no finalize call is observed step by step
\* the records the external POS system holds: contacts and products by the
\* id they were posted under, and the number of expenses posted per document
NoExternalRecords == [contacts |-> {}, products |-> {}, expenses |-> EmptyMap]

FinIdle ==
  /\ call = NoCall
  /\ env = [posConfig |-> Absent, data |-> Absent, calls |-> 0,
            atStart |-> Absent, pos |-> NoExternalRecords]

(***************************************************************************)
(* The edit-invoice page of a new scan: useDialogFlow's state, the record  *)
(* under construction and the asynchronous work in flight.                 *)
(***************************************************************************)
VARIABLES
  flow,        \* the useState cells of useDialogFlow
  details,     \* editableTaxInvoiceDetails, the record under construction
  pending,     \* awaits not yet resumed: counts per kind of continuation
  page,        \* loader and saver state of EditInvoiceContent
  scan,        \* what the loader delivered: docType, scanned supplier, items
  callerLink,  \* the invoice id the caller last confirmed in the link sheet
  savedFrom    \* the step the flow was in when finalize was last invoked

flowVars == <<flow, details, pending, page, scan, callerLink, savedFrom>>

\* the caller of finalize is not a page followed step by step
PageUnobserved ==
  /\ flow = Absent
  /\ details = Absent
  /\ pending = Absent
  /\ page = Absent
  /\ scan = Absent
  /\ callerLink = Absent
  /\ savedFrom = Absent

(***************************************************************************)
(* Calls of the other services, followed one at a time.                    *)
(***************************************************************************)
VARIABLES
  svc,     \* a call of a backend service or of getPosAdapter, and its result
  aiScan   \* a call of scanDocument: the retry loop and what it returns

svcVars == <<svc, aiScan>>

\* no such call is followed
ServicesUnobserved ==
  /\ svc = Absent
  /\ aiScan = Absent

\* what a handler starts from; page.toast is the toast the handler that ran
\* last has shown, so every handler starts without one
World ==
  [flow |-> flow, details |-> details, pending |-> pending,
   page |-> [page EXCEPT !.toast = Absent]]

PendingCount(p) == p.suppliers + p.products + p.save

\* an advance that does not look at the document type
NextStepIgnoringDocType(currentStep, docType) ==
  IF currentStep = "supplier_payment_details" THEN "new_product_details"
  ELSE "ready_to_save"

\* advanceToNextStep(currentStep), with docType from the closure
NextStepAfter(currentStep, docType) ==
  CASE currentStep = "supplier_payment_details" -> "new_product_details"
    [] currentStep = "new_product_details" ->
         IF docType = "invoice" \/ docType = "invoiceReceipt"
         THEN "prompt_link_delivery_notes"
         ELSE IF docType = "receipt" THEN "prompt_link_invoice"
         ELSE "ready_to_save"
    [] OTHER -> "ready_to_save"

AdvanceToNextStep(w, currentStep) ==
  [w EXCEPT !.flow.currentDialogStep = NextStepAfter(currentStep, scan.docType)]

\* onProductsUpdatedFromDialog(updatedProducts)
OnProductsUpdatedFromDialog(w, updatedProducts) ==
  IF updatedProducts = Absent THEN w
  ELSE [w EXCEPT !.page.productsForNextStep = updatedProducts]

\* getProductsService(userId): the active inventory records
ActiveInventory(inv) == {inv[i] : i \in {j \in DOMAIN inv : inv[j].isActive}}

NotApplicable == "N/A"

\* the filter of checkForNewProductsAndDetails: an item no inventory record
\* matches by id, catalog number or barcode
NeedsReview(p, inv) ==
  ~ \/ (p.id # Absent /\ \E q \in ActiveInventory(inv) :
                            q.id # Absent /\ q.id = p.id)
    \/ (p.catalogNumber # Absent /\ p.catalogNumber # NotApplicable
        /\ \E q \in ActiveInventory(inv) :
             /\ q.catalogNumber # Absent /\ q.catalogNumber # NotApplicable
             /\ q.catalogNumber = p.catalogNumber)
    \/ (p.barcode # Absent /\ \E q \in ActiveInventory(inv) :
                                 q.barcode # Absent /\ q.barcode = p.barcode)

ProductsNeedingReview(products, inv) ==
  SelectSeq(products, LAMBDA p : NeedsReview(p, inv))

\* checkForNewProductsAndDetails up to its await
CheckForNewProductsAndDetails(w, productsToCheck) ==
  IF productsToCheck = << >>
  THEN AdvanceToNextStep(w, "new_product_details")
  ELSE [w EXCEPT !.pending.products = @ + 1]

\* checkForNewProductsAndDetails after getProductsService resolved
ProductsFetched(w, productsToCheck, inv) ==
  IF ProductsNeedingReview(productsToCheck, inv) # << >>
  THEN [w EXCEPT !.flow.productsToDisplayForNewDetails =
                    ProductsNeedingReview(productsToCheck, inv),
                 !.flow.currentDialogStep = "new_product_details"]
  ELSE AdvanceToNextStep(OnProductsUpdatedFromDialog(w, productsToCheck),
                         "new_product_details")

\* the catch of checkForNewProductsAndDetails
ProductsFetchFailed(w) ==
  [w EXCEPT !.flow.currentDialogStep = "error_loading",
            !.page.toast = "edit_invoice_product_check_error_title"]

\* parsePaymentTermString: a stored term string back to {option, date}
ParsePaymentTermString(termString) ==
  CASE termString = Absent -> [option |-> Absent, date |-> Absent]
    [] termString = "Net 30" -> [option |-> "net30", date |-> Absent]
    [] termString = "2025-01-31" -> [option |-> "custom", date |-> "2025-01-31"]
    [] OTHER -> [option |-> "custom", date |-> Absent]

\* suppliers.find((s) => s[field] === value): the first supplier of the
\* fetched list with that value
FindSupplier(sups, field, value) ==
  LET hits == {i \in DOMAIN SupplierIdPool :
                 /\ SupplierIdPool[i] \in DOMAIN sups
                 /\ sups[SupplierIdPool[i]][field] = value}
  IN IF hits = {} THEN Absent
     ELSE SupplierIdPool[CHOOSE i \in hits : \A j \in hits : i <= j]

\* a matching that looks at the name first and at the tax id after it
MatchedByNameFirst(sups, osekMorshe, supplierName) ==
  LET byName == IF supplierName # Absent
                THEN FindSupplier(sups, "name", supplierName)
                ELSE Absent
  IN IF byName # Absent THEN byName
     ELSE IF osekMorshe # Absent
          THEN FindSupplier(sups, "osekMorshe", osekMorshe)
          ELSE Absent

\* the matching of startInitialDialogFlow: by tax id, then by name
MatchedSupplier(sups, osekMorshe, supplierName) ==
  LET byTax == IF osekMorshe # Absent
               THEN FindSupplier(sups, "osekMorshe", osekMorshe)
               ELSE Absent
  IN IF byTax # Absent THEN byTax
     ELSE IF supplierName # Absent
          THEN FindSupplier(sups, "name", supplierName)
          ELSE Absent

\* startInitialDialogFlow up to its first await
StartInitialDialogFlow(w) ==
  IF w.flow.hasFlowStarted THEN w
  ELSE [w EXCEPT !.flow.hasFlowStarted = TRUE,
                 !.flow.isDialogFlowActive = TRUE,
                 !.flow.dialogFlowError = Absent,
                 !.flow.currentDialogStep = "processing",
                 !.pending.suppliers = @ + 1]

\* a flow that asks for the supplier whatever the fetched list holds
SuppliersFetchedAlwaysAsks(w, sups) ==
  [w EXCEPT !.flow.potentialSupplierNameForSheet = scan.supplierName,
            !.flow.potentialOsekMorsheForSheet = scan.osekMorshe,
            !.flow.currentDialogStep = "supplier_payment_details"]

\* startInitialDialogFlow after getSuppliersService resolved
SuppliersFetched(w, sups) ==
  LET m == MatchedSupplier(sups, scan.osekMorshe, scan.supplierName)
  IN IF m # Absent
     THEN CheckForNewProductsAndDetails(
            [w EXCEPT !.flow.isSupplierFlowLocked = TRUE,
                      !.flow.finalizedSupplierId = m,
                      !.flow.finalSupplierNameFromFlow = sups[m].name,
                      !.flow.finalOsekMorsheFromFlow = sups[m].osekMorshe,
                      !.flow.finalPaymentTermOptionFromFlow =
                         ParsePaymentTermString(sups[m].paymentTerms).option,
                      !.flow.finalPaymentDueDateFromFlow =
                         ParsePaymentTermString(sups[m].paymentTerms).date],
            w.page.productsForNextStep)
     ELSE [w EXCEPT !.flow.potentialSupplierNameForSheet = scan.supplierName,
                    !.flow.potentialOsekMorsheForSheet = scan.osekMorshe,
                    !.flow.currentDialogStep = "supplier_payment_details"]

\* the catch of startInitialDialogFlow
SuppliersFetchFailed(w) ==
  [w EXCEPT !.flow.dialogFlowError = "Error during initial flow",
            !.flow.currentDialogStep = "error_loading",
            !.flow.isDialogFlowActive = FALSE,
            !.page.scanProcessError = "Failed to process invoice details."]

\* resetDialogFlow
ResetDialogFlow(w) ==
  [w EXCEPT !.flow.currentDialogStep = "idle",
            !.flow.dialogFlowError = Absent,
            !.flow.isDialogFlowActive = FALSE,
            !.flow.hasFlowStarted = FALSE,
            !.flow.isSupplierFlowLocked = FALSE,
            !.flow.finalSupplierNameFromFlow = Absent,
            !.flow.finalPaymentDueDateFromFlow = Absent,
            !.flow.finalPaymentTermOptionFromFlow = Absent,
            !.flow.finalOsekMorsheFromFlow = Absent,
            !.flow.productsToDisplayForNewDetails = << >>,
            !.flow.finalizedLinkedInvoiceId = Absent,
            !.flow.finalizedLinkedDeliveryNoteIds = {},
            !.flow.noteIdsRef = "new",
            !.flow.isLinkInvoiceSheetOpen = FALSE,
            !.flow.isLinkDeliveryNotesSheetOpen = FALSE]

\* handleLinkInvoice(linkedInvoiceId)
HandleLinkInvoice(w, linkedInvoiceId) ==
  [w EXCEPT !.flow.finalizedLinkedInvoiceId = linkedInvoiceId,
            !.page.toast = "link_invoice_linked_success_title",
            !.flow.isLinkInvoiceSheetOpen = FALSE,
            !.flow.currentDialogStep = "ready_to_save",
            !.flow.isDialogFlowActive = FALSE]

\* handleLinkDeliveryNotes(deliveryNoteIds)
HandleLinkDeliveryNotes(w, deliveryNoteIds) ==
  [w EXCEPT !.flow.finalizedLinkedDeliveryNoteIds = deliveryNoteIds,
            !.flow.noteIdsRef = "new",
            !.page.toast = "link_delivery_notes_linked_success_title",
            !.flow.isLinkDeliveryNotesSheetOpen = FALSE,
            !.flow.currentDialogStep = "ready_to_save",
            !.flow.isDialogFlowActive = FALSE]

\* onOpenChange of <LinkInvoiceSheet>, called with open = false
LinkInvoiceSheetOnOpenChange(w) == ResetDialogFlow(w)

\* onOpenChange of <LinkDeliveryNotesSheet>, called with open = false while
\* the rendered isDialogFlowActive is `active`
LinkDeliveryNotesSheetOnOpenChange(w, active) ==
  IF active THEN ResetDialogFlow(w) ELSE w

(***************************************************************************)
(* The effects that run after a render: `prev` is the state of the render  *)
(* before, `cur` the state just rendered, `acc` collects their updates.    *)
(***************************************************************************)
\* noteIdsRef is "new" when the handler stored a new array in
\* finalizedLinkedDeliveryNoteIds: a dependency compared by identity
PushDeps(f) ==
  <<f.noteIdsRef = "new", f.currentDialogStep, f.finalPaymentTermOptionFromFlow,
    f.finalSupplierNameFromFlow, f.finalPaymentDueDateFromFlow,
    f.finalOsekMorsheFromFlow, f.finalizedLinkedInvoiceId,
    f.finalizedLinkedDeliveryNoteIds>>

PushStepsWithError == {"idle", "ready_to_save", "error_loading"}

\* the steps in which the first effect of useDialogFlow updates the main form
PushSteps == {"idle", "ready_to_save"}

\* useDialogFlow's first effect: the finalized values go to the main form
PushEffect(prev, cur, acc) ==
  IF PushDeps([prev.flow EXCEPT !.noteIdsRef = "same"]) # PushDeps(cur.flow)
     /\ cur.flow.currentDialogStep \in PushSteps
  THEN [acc EXCEPT
          !.details.supplierName = cur.flow.finalSupplierNameFromFlow,
          !.details.dueDate = cur.flow.finalPaymentDueDateFromFlow,
          !.details.paymentTermOption = cur.flow.finalPaymentTermOptionFromFlow,
          !.details.linkedInvoiceId = cur.flow.finalizedLinkedInvoiceId,
          !.details.linkedDeliveryNoteIds =
             cur.flow.finalizedLinkedDeliveryNoteIds]
  ELSE acc

ProcessStepDeps(f) == <<f.currentDialogStep, f.finalizedSupplierId>>

\* useDialogFlow's processStep effect
ProcessStepEffect(prev, cur, acc) ==
  IF ProcessStepDeps(prev.flow) = ProcessStepDeps(cur.flow) THEN acc
  ELSE IF cur.flow.currentDialogStep = "prompt_link_invoice"
  THEN IF scan.docType = "receipt" /\ cur.flow.finalizedSupplierId # Absent
       THEN [acc EXCEPT !.flow.isLinkInvoiceSheetOpen = TRUE]
       ELSE AdvanceToNextStep(acc, "prompt_link_invoice")
  ELSE IF cur.flow.currentDialogStep = "prompt_link_delivery_notes"
  THEN IF scan.docType \in {"invoice", "invoiceReceipt"}
          /\ cur.flow.finalizedSupplierId # Absent
       THEN [acc EXCEPT !.flow.isLinkDeliveryNotesSheetOpen = TRUE]
       ELSE AdvanceToNextStep(acc, "prompt_link_delivery_notes")
  ELSE acc

StartDeps(w) == <<w.page.initialDataLoaded, w.flow.currentDialogStep>>

\* EditInvoiceContent's effect that starts the flow of a new scan
StartEffect(prev, cur, acc) ==
  IF StartDeps(prev) # StartDeps(cur)
     /\ cur.page.initialDataLoaded
     /\ cur.flow.currentDialogStep = "idle"
  THEN StartInitialDialogFlow(acc)
  ELSE acc

Effects(prev, cur) ==
  StartEffect(prev, cur,
    ProcessStepEffect(prev, cur,
      PushEffect(prev, cur, [cur EXCEPT !.flow.noteIdsRef = "same"])))

\* render, run the effects, render again, until nothing changes
Rendered(prev, cur) == <<cur, Effects(prev, cur)>>

Settle(prev, cur) ==
  LET a == CHOOSE r \in {Rendered(prev, cur)} : TRUE
      b == CHOOSE r \in {Rendered(a[1], a[2])} : TRUE
  IN Effects(b[1], b[2])

(***************************************************************************)
(* What the page can be loaded with.                                       *)
(***************************************************************************)
SupplierNames == {"acme", "bolt"}

Acme ==
  [SupplierDefaults EXCEPT !.name = "acme", !.osekMorshe = "t1",
                           !.paymentTerms = "Net 30", !.totalSpent = 5,
                           !.invoiceCount = 1]

UnpaidInvoice ==
  [DocumentDefaults EXCEPT !.status = "completed", !.documentType = "invoice",
                           !.supplierName = "acme", !.supplierId = "s1",
                           !.totalAmount = 5, !.paymentStatus = "unpaid"]

\* a delivery note stored with linkedToInvoiceId: null, which the query of
\* getUnlinkedDeliveryNotesBySupplier matches
OpenDeliveryNote ==
  [DocumentDefaults EXCEPT !.status = "completed",
                           !.documentType = "deliveryNote",
                           !.supplierName = "acme", !.supplierId = "s1",
                           !.paymentStatus = "unpaid",
                           !.linkedToInvoiceId = Absent]

KnownProduct ==
  [ProductDefaults EXCEPT !.id = "p1", !.catalogNumber = "X1"]

\* a line item as useInvoiceLoader builds it from the scan result
ScannedItem(n, catalogNumber) ==
  [id |-> IF n = 1 THEN "uuid-1" ELSE "uuid-2",
   _originalId |-> IF n = 1 THEN "temp-1" ELSE "temp-2",
   catalogNumber |-> catalogNumber, barcode |-> Absent]

ScannedProductLists ==
  {<< >>, <<ScannedItem(1, "X1")>>, <<ScannedItem(1, "X1"), ScannedItem(2, "Y9")>>}

\* the pending document the scan was stored under
TempInvoiceId == "d3"

\* the page as it is mounted for the scan: the flow idle, nothing loaded
PageAtLoad ==
  /\ flow = [currentDialogStep |-> "idle",
             isLinkInvoiceSheetOpen |-> FALSE,
             isLinkDeliveryNotesSheetOpen |-> FALSE,
             dialogFlowError |-> Absent,
             isDialogFlowActive |-> FALSE,
             potentialSupplierNameForSheet |-> Absent,
             potentialOsekMorsheForSheet |-> Absent,
             finalSupplierNameFromFlow |-> Absent,
             finalPaymentDueDateFromFlow |-> Absent,
             finalPaymentTermOptionFromFlow |-> Absent,
             finalOsekMorsheFromFlow |-> Absent,
             finalizedSupplierId |-> Absent,
             finalizedLinkedInvoiceId |-> Absent,
             finalizedLinkedDeliveryNoteIds |-> {},
             productsToDisplayForNewDetails |-> << >>,
             hasFlowStarted |-> FALSE,
             isSupplierFlowLocked |-> FALSE,
             noteIdsRef |-> "same"]
  /\ details = [supplierName |-> Absent, dueDate |-> Absent,
                paymentTermOption |-> Absent, linkedInvoiceId |-> Absent,
                linkedDeliveryNoteIds |-> {}, totalAmount |-> 7]
  /\ pending = [suppliers |-> 0, products |-> 0, save |-> 0]
  /\ page = [initialDataLoaded |-> FALSE, isSaving |-> FALSE,
             productsForNextStep |-> scan.products, toast |-> Absent,
             scanProcessError |-> Absent, isViewMode |-> FALSE]
  /\ callerLink = Absent
  /\ savedFrom = Absent
  /\ FinIdle
  /\ ServicesUnobserved

InitFlow ==
  /\ suppliers = [i \in {"s1"} |-> Acme]
  /\ documents = [i \in {"d1", "d2", "d3"} |->
                    CASE i = "d1" -> UnpaidInvoice
                      [] i = "d2" -> OpenDeliveryNote
                      [] OTHER -> DocumentDefaults]
  /\ inventory = [i \in {"p1"} |-> KnownProduct]
  /\ \E dt \in DocTypes, n \in SupplierNames, o \in {Absent},
        ps \in ScannedProductLists :
       scan = [docType |-> dt, supplierName |-> n, osekMorshe |-> o,
               products |-> ps]
  /\ PageAtLoad

\* a handler ran: the state it left is rendered and the effects run
Handled(w) ==
  \E s \in {Settle(World, w)} :
     /\ PendingCount(s.pending) <= MaxPending
     /\ flow' = s.flow
     /\ details' = s.details
     /\ pending' = s.pending
     /\ page' = s.page
     /\ UNCHANGED <<finVars, svcVars>>

\* the loader finished: initialDataLoaded becomes true
LoadComplete ==
  /\ ~page.initialDataLoaded
  /\ Handled([World EXCEPT !.page.initialDataLoaded = TRUE,
                            !.details.supplierName = scan.supplierName])
  /\ UNCHANGED <<suppliers, inventory, documents, scan, callerLink, savedFrom>>

\* a getSuppliersService of startInitialDialogFlow resolves
SuppliersResolved ==
  /\ pending.suppliers > 0
  /\ Handled(SuppliersFetched([World EXCEPT !.pending.suppliers = @ - 1],
                              suppliers))
  /\ UNCHANGED <<suppliers, inventory, documents, scan, callerLink, savedFrom>>

\* a getSuppliersService of startInitialDialogFlow rejects
SuppliersRejected ==
  /\ pending.suppliers > 0
  /\ Handled(SuppliersFetchFailed([World EXCEPT !.pending.suppliers = @ - 1]))
  /\ UNCHANGED <<suppliers, inventory, documents, scan, callerLink, savedFrom>>

\* a getProductsService of checkForNewProductsAndDetails resolves
ProductsResolved ==
  /\ pending.products > 0
  /\ Handled(ProductsFetched([World EXCEPT !.pending.products = @ - 1],
                             page.productsForNextStep, inventory))
  /\ UNCHANGED <<suppliers, inventory, documents, scan, callerLink, savedFrom>>

\* a getProductsService of checkForNewProductsAndDetails rejects
ProductsRejected ==
  /\ pending.products > 0
  /\ Handled(ProductsFetchFailed([World EXCEPT !.pending.products = @ - 1]))
  /\ UNCHANGED <<suppliers, inventory, documents, scan, callerLink, savedFrom>>

\* what the supplier sheet can hand to onSave
SheetSaveInputs ==
  {[confirmedSupplierName |-> n, paymentTermOption |-> "net30",
    paymentDueDate |-> Absent, osekMorshe |-> flow.potentialOsekMorsheForSheet,
    supplierId |-> id] :
     n \in SupplierNames, id \in {Absent, "s1"}}

\* handleSupplierSheetSave(data), offered while the sheet is open
HandleSupplierSheetSave ==
  /\ flow.currentDialogStep = "supplier_payment_details"
  /\ \E data \in SheetSaveInputs :
       /\ data.supplierId # Absent =>
            /\ data.supplierId \in DOMAIN suppliers
            /\ suppliers[data.supplierId].name = data.confirmedSupplierName
       /\ Handled(
            CheckForNewProductsAndDetails(
              [World EXCEPT
                 !.flow.finalSupplierNameFromFlow = data.confirmedSupplierName,
                 !.flow.finalOsekMorsheFromFlow = data.osekMorshe,
                 !.flow.finalPaymentTermOptionFromFlow = data.paymentTermOption,
                 !.flow.finalPaymentDueDateFromFlow = data.paymentDueDate,
                 !.flow.finalizedSupplierId =
                    IF data.supplierId # Absent THEN data.supplierId
                    ELSE "mock-id"],
              page.productsForNextStep))
  /\ UNCHANGED <<suppliers, inventory, documents, scan, callerLink, savedFrom>>

\* handleSupplierSheetCancel
HandleSupplierSheetCancel ==
  /\ flow.currentDialogStep = "supplier_payment_details"
  /\ Handled([World EXCEPT
                !.page.toast = "edit_invoice_supplier_selection_cancelled_title",
                !.flow.currentDialogStep = "idle",
                !.flow.isDialogFlowActive = FALSE])
  /\ UNCHANGED <<suppliers, inventory, documents, scan, callerLink, savedFrom>>

\* handleNewProductDetailsDialogComplete(updatedProducts), offered while
\* newProductDetailsDialogProps is not null
HandleNewProductDetailsDialogComplete ==
  /\ flow.currentDialogStep = "new_product_details"
  /\ flow.productsToDisplayForNewDetails # << >>
  /\ \E updatedProducts \in {Absent, page.productsForNextStep} :
       Handled(
         AdvanceToNextStep(
           [OnProductsUpdatedFromDialog(World, updatedProducts)
              EXCEPT !.flow.productsToDisplayForNewDetails = << >>],
           "new_product_details"))
  /\ UNCHANGED <<suppliers, inventory, documents, scan, callerLink, savedFrom>>

\* getUnpaidInvoicesBySupplier(supplierId, userId)
UnpaidInvoicesBySupplier(docs, supplierId) ==
  {d \in DOMAIN docs : /\ docs[d].supplierId = supplierId
                       /\ docs[d].paymentStatus = "unpaid"
                       /\ docs[d].documentType = "invoice"}

\* getUnlinkedDeliveryNotesBySupplier(supplierId, userId)
UnlinkedDeliveryNotesBySupplier(docs, supplierId) ==
  {d \in DOMAIN docs : /\ docs[d].supplierId = supplierId
                       /\ docs[d].documentType = "deliveryNote"
                       /\ docs[d].linkedToInvoiceId = Absent}

\* handleLink of LinkInvoiceSheet: onLink(selectedInvoiceId), then
\* onOpenChange(false), both in the one click
LinkInvoiceSheetHandleLink ==
  /\ flow.isLinkInvoiceSheetOpen
  /\ \E selectedInvoiceId \in
          UnpaidInvoicesBySupplier(documents, flow.finalizedSupplierId) :
       /\ Handled(LinkInvoiceSheetOnOpenChange(
                    HandleLinkInvoice(World, selectedInvoiceId)))
       /\ callerLink' = IF documents[TempInvoiceId].status = "completed"
                        THEN callerLink ELSE selectedInvoiceId
  /\ UNCHANGED <<suppliers, inventory, documents, scan, savedFrom>>

\* handleCancel of LinkInvoiceSheet: linkInvoiceSheetProps.onCancel
LinkInvoiceSheetHandleCancel ==
  /\ flow.isLinkInvoiceSheetOpen
  /\ Handled([World EXCEPT !.flow.isLinkInvoiceSheetOpen = FALSE])
  /\ UNCHANGED <<suppliers, inventory, documents, scan, callerLink, savedFrom>>

\* the sheet is dismissed: onOpenChange(false)
LinkInvoiceSheetDismiss ==
  /\ flow.isLinkInvoiceSheetOpen
  /\ Handled(LinkInvoiceSheetOnOpenChange(World))
  /\ UNCHANGED <<suppliers, inventory, documents, scan, callerLink, savedFrom>>

\* handleLink of LinkDeliveryNotesSheet
LinkDeliveryNotesSheetHandleLink ==
  /\ flow.isLinkDeliveryNotesSheetOpen
  /\ \E selectedNoteIds \in
          SUBSET UnlinkedDeliveryNotesBySupplier(documents,
                                                 flow.finalizedSupplierId) :
       /\ selectedNoteIds # {}
       /\ Handled(LinkDeliveryNotesSheetOnOpenChange(
                    HandleLinkDeliveryNotes(World, selectedNoteIds),
                    flow.isDialogFlowActive))
  /\ UNCHANGED <<suppliers, inventory, documents, scan, callerLink, savedFrom>>

\* handleCancel of LinkDeliveryNotesSheet
LinkDeliveryNotesSheetHandleCancel ==
  /\ flow.isLinkDeliveryNotesSheetOpen
  /\ Handled([World EXCEPT !.flow.isLinkDeliveryNotesSheetOpen = FALSE])
  /\ UNCHANGED <<suppliers, inventory, documents, scan, callerLink, savedFrom>>

\* the sheet is dismissed: onOpenChange(false)
LinkDeliveryNotesSheetDismiss ==
  /\ flow.isLinkDeliveryNotesSheetOpen
  /\ Handled(LinkDeliveryNotesSheetOnOpenChange(World, flow.isDialogFlowActive))
  /\ UNCHANGED <<suppliers, inventory, documents, scan, callerLink, savedFrom>>

(***************************************************************************)
(* The saver of the page.  EditInvoiceContent hands it the form, the       *)
(* products and the finalized supplier fields, and its handleFullSave is   *)
(* what the Save button runs; the dialog step is not among its inputs.     *)
(***************************************************************************)
SaveData ==
  [userId |-> "u1",
   supplierName |-> IF flow.finalSupplierNameFromFlow # Absent
                    THEN flow.finalSupplierNameFromFlow
                    ELSE details.supplierName,
   totalAmount |-> details.totalAmount,
   paymentTerms |-> flow.finalPaymentTermOptionFromFlow,
   osekMorshe |-> scan.osekMorshe,
   docType |-> scan.docType,
   existingDocumentId |-> TempInvoiceId,
   products |-> page.productsForNextStep]

\* handleSaveInitiation: saver.handleFullSave()
HandleFullSave ==
  /\ page.initialDataLoaded
  /\ ~page.isSaving
  /\ ~page.isViewMode
  /\ Handled([World EXCEPT !.page.isSaving = TRUE,
                           !.pending.save = @ + 1])
  /\ UNCHANGED <<suppliers, inventory, documents, scan, callerLink, savedFrom>>

\* onSaveSuccess(savedInvoice)
OnSaveSuccess(w, savedInvoice) ==
  ResetDialogFlow([w EXCEPT !.page.isViewMode = TRUE,
                            !.details.supplierName = savedInvoice.supplierName,
                            !.details.totalAmount = savedInvoice.totalAmount,
                            !.page.scanProcessError = Absent])

\* onSaveError(errorMsg)
OnSaveError(w, errorMsg) == [w EXCEPT !.page.scanProcessError = errorMsg]

\* the saver calls the finalizer and reports its outcome
SaveResumed ==
  /\ pending.save > 0
  /\ LET out == FinalizeOutcome(Store, SaveData)
         w == [World EXCEPT !.pending.save = @ - 1, !.page.isSaving = FALSE]
     IN /\ savedFrom' = flow.currentDialogStep
        /\ IF out.ok
           THEN /\ suppliers' = out.store.suppliers
                /\ inventory' = out.store.inventory
                /\ documents' = out.store.documents
                /\ Handled(OnSaveSuccess(w, out.store.documents[out.docId]))
           ELSE /\ UNCHANGED <<suppliers, inventory, documents>>
                /\ Handled(OnSaveError(w, "save failed"))
  /\ UNCHANGED <<scan, callerLink>>

vars ==
  <<suppliers, inventory, documents, flow, details, pending, page, scan,
    callerLink, savedFrom, call, env, svc, aiScan>>

NextFlow ==
  \/ LoadComplete
  \/ SuppliersResolved
  \/ SuppliersRejected
  \/ ProductsResolved
  \/ ProductsRejected
  \/ HandleSupplierSheetSave
  \/ HandleSupplierSheetCancel
  \/ HandleNewProductDetailsDialogComplete
  \/ LinkInvoiceSheetHandleLink
  \/ LinkInvoiceSheetHandleCancel
  \/ LinkInvoiceSheetDismiss
  \/ LinkDeliveryNotesSheetHandleLink
  \/ LinkDeliveryNotesSheetHandleCancel
  \/ LinkDeliveryNotesSheetDismiss
  \/ HandleFullSave
  \/ SaveResumed

SpecFlow == InitFlow /\ [][NextFlow]_vars

(***************************************************************************)
(* The same page loaded over a store with a second supplier and a product  *)
(* that was deactivated, and with scans that carry a tax id.               *)
(***************************************************************************)
Bolt ==
  [SupplierDefaults EXCEPT !.name = "bolt", !.osekMorshe = "t2",
                           !.paymentTerms = "2025-01-31"]

\* the suppliers of the store and what the scan extracted
SupplierLoads ==
  {[ids |-> {"s1", "s2"}, supplierName |-> "bolt", osekMorshe |-> "t1"],
   [ids |-> {"s1", "s2"}, supplierName |-> "bolt", osekMorshe |-> Absent],
   [ids |-> {"s1", "s2"}, supplierName |-> "acme", osekMorshe |-> "t9"],
   [ids |-> {"s1"}, supplierName |-> "acme", osekMorshe |-> "t1"],
   [ids |-> {"s1"}, supplierName |-> "bolt", osekMorshe |-> "t2"]}

\* product p1 as deleteProductService may have left it, and the line items
ProductLoads ==
  {[isActive |-> TRUE, products |-> <<ScannedItem(1, "X1")>>],
   [isActive |-> FALSE, products |-> <<ScannedItem(1, "X1")>>],
   [isActive |-> TRUE,
    products |-> <<ScannedItem(1, "X1"), ScannedItem(2, "Y9")>>]}

InitMatch ==
  /\ documents = [i \in {"d1", "d2", "d3"} |->
                    CASE i = "d1" -> UnpaidInvoice
                      [] i = "d2" -> OpenDeliveryNote
                      [] OTHER -> DocumentDefaults]
  /\ \E sl \in SupplierLoads, pl \in ProductLoads,
        dt \in {"invoice", "receipt"} :
       /\ suppliers = [i \in sl.ids |-> IF i = "s1" THEN Acme ELSE Bolt]
       /\ inventory = [i \in {"p1"} |->
                         [KnownProduct EXCEPT !.isActive = pl.isActive]]
       /\ scan = [docType |-> dt, supplierName |-> sl.supplierName,
                  osekMorshe |-> sl.osekMorshe, products |-> pl.products]
  /\ PageAtLoad

SpecMatch == InitMatch /\ [][NextFlow]_vars

(***************************************************************************)
(* Properties of the resolution flow, checked under SpecFlow.              *)
(***************************************************************************)
Step == flow.currentDialogStep

\* the handlers that call resetDialogFlow
ExplicitReset ==
  \/ LinkInvoiceSheetHandleLink
  \/ LinkInvoiceSheetDismiss
  \/ LinkDeliveryNotesSheetHandleLink
  \/ LinkDeliveryNotesSheetDismiss
  \/ SaveResumed

\* C4: from new_product_details the flow never moves back to
\* supplier_payment_details
C4_ForwardOnly ==
  [][Step = "new_product_details" => Step' # "supplier_payment_details"]_vars

\* C5: finalize is invoked only while the step is ready_to_save
C5_FinalizeOnlyWhenReady == savedFrom \in {Absent, "ready_to_save"}

\* C6: once in ready_to_save, a step that is not an explicit reset never moves
\* the flow to processing, supplier_payment_details, new_product_details or a
\* prompt_link step
C6_ReadyToSaveIsFinal ==
  [][(Step = "ready_to_save" /\ ~ExplicitReset) =>
       Step' \notin {"processing", "supplier_payment_details",
                     "new_product_details", "prompt_link_invoice",
                     "prompt_link_delivery_notes"}]_vars

\* C7: the document finalize committed for a receipt whose caller confirmed
\* the link to invoice X has linkedInvoiceId = X
C7_CommittedLink ==
  (documents[TempInvoiceId].status = "completed" /\ callerLink # Absent)
    => documents[TempInvoiceId].linkedInvoiceId = callerLink

\* C8: confirming invoice X in the open link sheet of step prompt_link_invoice
\* leaves the flow in ready_to_save holding finalizedLinkedInvoiceId = X
C8_ConfirmKeepsSelection ==
  [][(Step = "prompt_link_invoice" /\ LinkInvoiceSheetHandleLink) =>
       /\ Step' = "ready_to_save"
       /\ flow'.finalizedLinkedInvoiceId # Absent
       /\ flow'.finalizedLinkedInvoiceId \in
            UnpaidInvoicesBySupplier(documents, flow.finalizedSupplierId)]_vars

\* C9: once the step is idle after a cancel or reset, no continuation enters
\* new_product_details, a prompt_link step, ready_to_save or error_loading
C9_IdleStaysIdle ==
  [][(Step = "idle" /\ page.initialDataLoaded) =>
       Step' \notin {"new_product_details", "prompt_link_invoice",
                     "prompt_link_delivery_notes", "ready_to_save",
                     "error_loading"}]_vars

Surfaced(p) == p.toast # Absent \/ p.scanProcessError # Absent

\* C10: a rejected supplier or product fetch leaves the step error_loading
\* with an error shown, and no step that ends in error_loading changes the
\* record under construction
C10_FetchFailure ==
  [][/\ (SuppliersRejected \/ ProductsRejected) =>
          (Step' = "error_loading" /\ Surfaced(page'))
     /\ Step' = "error_loading" => details' = details]_vars

\* C10: a product fetch failed after the supplier was matched: selections are
\* held by the flow and the record does not have them
C10_Witness ==
  /\ Step = "error_loading"
  /\ page.toast = "edit_invoice_product_check_error_title"
  /\ flow.finalPaymentTermOptionFromFlow = "net30"
  /\ details.paymentTermOption = Absent

PromptLinkSteps == {"prompt_link_invoice", "prompt_link_delivery_notes"}

\* the product review step completes: the caller closes the dialog, or the
\* product fetch resolves and finds nothing to review
ProductReviewCompletes ==
  \/ HandleNewProductDetailsDialogComplete
  \/ /\ ProductsResolved
     /\ ProductsNeedingReview(page.productsForNextStep, inventory) = << >>

\* C23: when the product review step completes, the step becomes
\* prompt_link_delivery_notes for an invoice or invoiceReceipt,
\* prompt_link_invoice for a receipt and ready_to_save for a deliveryNote,
\* and with a deliveryNote the step is never a prompt_link step
C23_NextStepByDocType ==
  [][/\ ProductReviewCompletes =>
          Step' = CASE scan.docType \in {"invoice", "invoiceReceipt"} ->
                         "prompt_link_delivery_notes"
                    [] scan.docType = "receipt" -> "prompt_link_invoice"
                    [] OTHER -> "ready_to_save"
     /\ scan.docType = "deliveryNote" => Step' \notin PromptLinkSteps]_vars

\* C23: an invoiceReceipt whose second item needed review is at the
\* delivery-note prompt with the sheet open
C23_Witness ==
  /\ scan.docType = "invoiceReceipt"
  /\ Len(scan.products) = 2
  /\ flow.productsToDisplayForNewDetails = << >>
  /\ Step = "prompt_link_delivery_notes"
  /\ flow.isLinkDeliveryNotesSheetOpen

\* C24: while a linking sheet is open the flow holds the id of a supplier
\* record of the store, and a prompt_link step reached without a supplier id
\* is left for ready_to_save with no sheet open
C24_SheetNeedsResolvedSupplier ==
  /\ (flow.isLinkInvoiceSheetOpen \/ flow.isLinkDeliveryNotesSheetOpen) =>
       flow.finalizedSupplierId \in DOMAIN suppliers
  /\ (Step \in PromptLinkSteps /\ flow.finalizedSupplierId = Absent) =>
       (~flow.isLinkInvoiceSheetOpen /\ ~flow.isLinkDeliveryNotesSheetOpen)

\* the caller declines to link: the cancel button, or closing the sheet
DeclinesToLink ==
  \/ LinkInvoiceSheetHandleCancel
  \/ LinkInvoiceSheetDismiss
  \/ LinkDeliveryNotesSheetHandleCancel
  \/ LinkDeliveryNotesSheetDismiss

\* C26: declining to link leaves the flow in ready_to_save with no invoice
\* and no delivery note selected: not in a prompt_link step with the sheet
\* closed, and not back in processing
C26_DeclineReachesReadyToSave ==
  [][DeclinesToLink =>
       /\ Step' = "ready_to_save"
       /\ flow'.finalizedLinkedInvoiceId = Absent
       /\ flow'.finalizedLinkedDeliveryNoteIds = {}]_vars

\* the steps in which resetDialogFlow runs
ResetDialogFlowRuns ==
  \/ LinkInvoiceSheetHandleLink
  \/ LinkInvoiceSheetDismiss
  \/ /\ flow.isDialogFlowActive
     /\ LinkDeliveryNotesSheetHandleLink \/ LinkDeliveryNotesSheetDismiss
  \/ SaveResumed /\ FinalizeOutcome(Store, SaveData).ok

\* C27: a step in which resetDialogFlow runs leaves the flow without
\* finalized supplier id, supplier name, tax id, payment term, due date,
\* linked invoice id, linked delivery-note ids and pending new products
C27_ResetDiscardsSession ==
  [][ResetDialogFlowRuns =>
       /\ flow'.finalizedSupplierId = Absent
       /\ flow'.finalSupplierNameFromFlow = Absent
       /\ flow'.finalOsekMorsheFromFlow = Absent
       /\ flow'.finalPaymentTermOptionFromFlow = Absent
       /\ flow'.finalPaymentDueDateFromFlow = Absent
       /\ flow'.finalizedLinkedInvoiceId = Absent
       /\ flow'.finalizedLinkedDeliveryNoteIds = {}
       /\ flow'.productsToDisplayForNewDetails = << >>]_vars

(***************************************************************************)
(* Properties of the matching at load, checked under SpecMatch.            *)
(***************************************************************************)
TaxIdMatches ==
  {s \in DOMAIN suppliers : /\ scan.osekMorshe # Absent
                            /\ suppliers[s].osekMorshe = scan.osekMorshe}

NameMatches ==
  {s \in DOMAIN suppliers : /\ scan.supplierName # Absent
                            /\ suppliers[s].name = scan.supplierName}

\* C21: when the supplier fetch resolves and a supplier of the store matches
\* the scan, the step does not become supplier_payment_details, the flow
\* holds that supplier's id, name, tax id and payment terms, and the product
\* check has started; when none matches the step is supplier_payment_details
\* and the sheet is offered the extracted name and tax id
C21_MatchSkipsSupplierStep ==
  [][SuppliersResolved =>
       IF TaxIdMatches \cup NameMatches # {}
       THEN /\ Step' # "supplier_payment_details"
            /\ flow'.finalizedSupplierId \in TaxIdMatches \cup NameMatches
            /\ LET m == suppliers[flow'.finalizedSupplierId]
               IN /\ flow'.finalSupplierNameFromFlow = m.name
                  /\ flow'.finalOsekMorsheFromFlow = m.osekMorshe
                  /\ flow'.finalPaymentTermOptionFromFlow =
                       ParsePaymentTermString(m.paymentTerms).option
                  /\ flow'.finalPaymentDueDateFromFlow =
                       ParsePaymentTermString(m.paymentTerms).date
            /\ IF page.productsForNextStep = << >>
               THEN Step' \in {"prompt_link_invoice",
                               "prompt_link_delivery_notes", "ready_to_save"}
               ELSE pending'.products = pending.products + 1
       ELSE /\ Step' = "supplier_payment_details"
            /\ flow'.potentialSupplierNameForSheet = scan.supplierName
            /\ flow'.potentialOsekMorsheForSheet = scan.osekMorshe]_vars

\* C21: the product check is under way for the supplier the name matched,
\* whose stored term is a date
C21_Witness ==
  /\ Step = "processing"
  /\ pending.products = 1
  /\ scan.osekMorshe = Absent
  /\ flow.finalizedSupplierId = "s2"
  /\ flow.finalSupplierNameFromFlow = "bolt"
  /\ flow.finalOsekMorsheFromFlow = "t2"
  /\ flow.finalPaymentTermOptionFromFlow = "custom"
  /\ flow.finalPaymentDueDateFromFlow = "2025-01-31"

\* C22: when the supplier fetch resolves, the supplier the flow holds has the
\* extracted tax id if any supplier of the store has it, and otherwise has
\* the extracted name if any supplier has that
C22_TaxIdBeforeName ==
  [][SuppliersResolved =>
       /\ TaxIdMatches # {} => flow'.finalizedSupplierId \in TaxIdMatches
       /\ (TaxIdMatches = {} /\ NameMatches # {}) =>
            flow'.finalizedSupplierId \in NameMatches]_vars

\* C22: the tax id is supplier s1's, the name is supplier s2's, and the flow
\* holds s1
C22_Witness ==
  /\ scan.osekMorshe = "t1"
  /\ scan.supplierName = "bolt"
  /\ "s2" \in DOMAIN suppliers
  /\ suppliers["s2"].name = "bolt"
  /\ flow.isSupplierFlowLocked
  /\ flow.finalizedSupplierId = "s1"
  /\ flow.finalSupplierNameFromFlow = "acme"

C25_Matched(p) ==
  \E i \in DOMAIN inventory :
    \/ p.id # Absent /\ inventory[i].id = p.id
    \/ /\ p.catalogNumber \notin {Absent, NotApplicable}
       /\ inventory[i].catalogNumber = p.catalogNumber
    \/ p.barcode # Absent /\ inventory[i].barcode = p.barcode

C25_Unmatched(products) == SelectSeq(products, LAMBDA p : ~C25_Matched(p))

\* C25: when the product fetch resolves and every line item matches an
\* inventory record by id, catalog number or barcode, the step does not become
\* new_product_details; when some item matches none, the step becomes
\* new_product_details and the items listed are exactly the unmatched ones;
\* with no line items the product check leaves the step past
\* new_product_details at once
C25_AutoAdvance ==
  [][/\ ProductsResolved =>
          IF C25_Unmatched(page.productsForNextStep) = << >>
          THEN Step' # "new_product_details"
          ELSE /\ Step' = "new_product_details"
               /\ flow'.productsToDisplayForNewDetails =
                    C25_Unmatched(page.productsForNextStep)
     /\ (HandleSupplierSheetSave /\ page.productsForNextStep = << >>) =>
          Step' \in {"prompt_link_invoice", "prompt_link_delivery_notes",
                     "ready_to_save"}]_vars

(***************************************************************************)
(* finalizeSaveProductsService step by step.                               *)
(***************************************************************************)
PosSystem == "caspit"

\* StageAllDirect writes to the store at once, as updateDoc / setDoc would;
\* StageAll is transaction.update / transaction.set: the writes wait for the
\* commit.
StageAllDirect(c, st, ws) ==
  [call |-> c, store |-> IF WritesOk(st, ws) THEN ApplyWrites(st, ws) ELSE st]

StageAll(c, st, ws) == [call |-> [c EXCEPT !.writes = @ \o ws], store |-> st]

StoreBecomes(st) ==
  /\ suppliers' = st.suppliers
  /\ inventory' = st.inventory
  /\ documents' = st.documents

\* the callback or the commit threw: runTransaction rejects, the outer catch
\* rethrows
Thrown(c) == [c EXCEPT !.pc = "done", !.outcome = "threw", !.writes = << >>]

FinalizeStart ==
  /\ call.pc \in {"idle", "done"}
  /\ env.calls < MaxCalls
  /\ call' = IF FinalizePreconditions(env.data)
             THEN [NoCall EXCEPT !.pc = "txRead"]
             ELSE Thrown(NoCall)
  /\ env' = [env EXCEPT !.calls = @ + 1, !.atStart = Store]
  /\ UNCHANGED <<suppliers, inventory, documents, flowVars, svcVars>>

\* finalize called again with the arguments of the call that ended: the same
\* scan is saved once more
FinalizeRepeat ==
  /\ call.pc = "done"
  /\ env.calls <= MaxRepeats
  /\ call' = IF FinalizePreconditions(env.data)
             THEN [NoCall EXCEPT !.pc = "txRead"]
             ELSE Thrown(NoCall)
  /\ env' = [env EXCEPT !.calls = @ + 1, !.atStart = Store]
  /\ UNCHANGED <<suppliers, inventory, documents, flowVars, svcVars>>

\* a run of the callback starts: transaction.get(existingDocRef) and the
\* supplier query
TxRead ==
  /\ call.pc = "txRead"
  /\ \E ok \in BOOLEAN :
       call' = IF ok
               THEN [call EXCEPT
                       !.pc = "txGetSupplier",
                       !.attempts = @ + 1,
                       !.writes = << >>,
                       !.existing = SupplierByName(suppliers,
                                                   env.data.supplierName)]
               ELSE Thrown(call)
  /\ UNCHANGED <<suppliers, inventory, documents, env, flowVars, svcVars>>

\* a callback that goes on as if the name lookup had found no supplier when
\* the supplier it found is gone
SupplierGoneCreatesNew(c) ==
  [c EXCEPT !.pc = "stageSupplier", !.readStore = Store,
            !.existing = IF @ \in DOMAIN suppliers THEN @ ELSE Absent]

\* if (existingSupplierDoc) { supplierDocInTransaction = await
\* transaction.get(...); if (!supplierDocInTransaction.exists()) throw ... }
SupplierDocInTransaction(c) ==
  IF c.existing # Absent /\ c.existing \notin DOMAIN suppliers
  THEN Thrown(c)
  ELSE [c EXCEPT !.pc = "stageSupplier", !.readStore = Store]

\* transaction.get(existingSupplierDoc.ref), or nothing to get
TxGetSupplier ==
  /\ call.pc = "txGetSupplier"
  /\ call' = SupplierDocInTransaction(call)
  /\ UNCHANGED <<suppliers, inventory, documents, env, flowVars, svcVars>>

\* the supplier write of the callback, or a throw at that point
StageSupplier ==
  /\ call.pc = "stageSupplier"
  /\ \E ok \in BOOLEAN :
       IF ok
       THEN LET r == StageAll(
                       [call EXCEPT
                          !.pc = "stageProducts",
                          !.supplierId = FinalSupplierId(call.readStore,
                                                         call.existing)],
                       Store,
                       <<SupplierWrite(call.readStore, env.data, call.existing)>>)
            IN call' = r.call /\ StoreBecomes(r.store)
       ELSE call' = Thrown(call) /\ UNCHANGED <<suppliers, inventory, documents>>
  /\ UNCHANGED <<env, flowVars, svcVars>>

\* the product loop of the callback, or a throw at that point
StageProductWrites ==
  /\ call.pc = "stageProducts"
  /\ \E ok \in BOOLEAN :
       IF ok
       THEN LET ps == StageProducts(call.readStore, call.writes, call.saved,
                                    env.data.products)
                r == StageAll([call EXCEPT !.pc = "stageDocument",
                                           !.saved = ps.saved],
                              Store,
                              SubSeq(ps.staged, Len(call.writes) + 1,
                                     Len(ps.staged)))
            IN call' = r.call /\ StoreBecomes(r.store)
       ELSE call' = Thrown(call) /\ UNCHANGED <<suppliers, inventory, documents>>
  /\ UNCHANGED <<env, flowVars, svcVars>>

\* transaction.set(finalInvoiceRef, invoiceData, {merge: true}), or a throw
StageDocument ==
  /\ call.pc = "stageDocument"
  /\ \E ok \in BOOLEAN :
       IF ok
       THEN LET dw == DocumentWrite(call.readStore, env.data, call.supplierId,
                                    call.saved)
                r == StageAll([call EXCEPT !.pc = "commit",
                                           !.docId = dw.id,
                                           !.record = dw.data],
                              Store, <<dw>>)
            IN call' = r.call /\ StoreBecomes(r.store)
       ELSE call' = Thrown(call) /\ UNCHANGED <<suppliers, inventory, documents>>
  /\ UNCHANGED <<env, flowVars, svcVars>>

\* a document the transaction read has changed since
Contention ==
  /\ call.existing # Absent
  /\ \/ call.existing \notin DOMAIN suppliers
     \/ suppliers[call.existing] # call.readStore.suppliers[call.existing]

\* the commit: every staged write or none; a conflict runs the callback again
TxCommit ==
  /\ call.pc = "commit"
  /\ IF Contention
     THEN /\ call' = IF call.attempts < MaxAttempts
                     THEN [call EXCEPT !.pc = "txRead", !.writes = << >>]
                     ELSE Thrown(call)
          /\ UNCHANGED <<suppliers, inventory, documents>>
     ELSE IF ~WritesOk(Store, call.writes)
     THEN call' = Thrown(call) /\ UNCHANGED <<suppliers, inventory, documents>>
     ELSE \E ok \in BOOLEAN :
            IF ok
            THEN /\ StoreBecomes(ApplyWrites(Store, call.writes))
                 /\ call' = [call EXCEPT !.pc = "relaySettings",
                                         !.committed = TRUE,
                                         !.writes = << >>]
            ELSE /\ call' = Thrown(call)
                 /\ UNCHANGED <<suppliers, inventory, documents>>
  /\ UNCHANGED <<env, flowVars, svcVars>>

\* deleteSupplierService, called from another session while finalize runs
DeleteSupplier ==
  /\ call.pc \notin {"idle", "done"}
  /\ \E s \in DOMAIN suppliers :
       /\ suppliers' = [i \in DOMAIN suppliers \ {s} |-> suppliers[i]]
       /\ env' = [env EXCEPT !.atStart.suppliers =
                    [i \in DOMAIN @ \ {s} |-> @[i]]]
  /\ UNCHANGED <<inventory, documents, call, flowVars, svcVars>>

(***************************************************************************)
(* The POS relay that follows the commit.                                  *)
(***************************************************************************)
AdapterOutcomes == {"ok", "throws"}

\* upsertPosSupplierAction, upsertPosProductAction, createPosExpenseAction:
\* what the adapter throws is caught and returned as a failure
PosActionResult(adapterOutcome) ==
  IF adapterOutcome = "ok"
  THEN [success |-> TRUE, externalId |-> "ext-1"]
  ELSE [success |-> FALSE, externalId |-> Absent]

\* a lookup that never finds an external id
ExternalIdNeverFound(record, systemId) == Absent

\* supplierData.posRefs?.[config.systemId]?.externalId
ExternalIdOf(record, systemId) ==
  IF systemId \in DOMAIN record.posRefs THEN record.posRefs[systemId] ELSE Absent

WithPosRef(record, systemId, externalId) ==
  [record EXCEPT !.posRefs = Merge(@, [x \in {systemId} |-> externalId])]

\* CaspitAdapter.upsertSupplier: POST /Contacts with
\* ContactId: supplier.posRefs?.caspit?.externalId || supplier.id
UpsertContact(pos, supplierId, adapterOutcome) ==
  IF adapterOutcome = "ok"
  THEN [pos EXCEPT !.contacts = @ \cup {supplierId}]
  ELSE pos

\* CaspitAdapter.upsertProduct: POST /Products with
\* ProductId: product.posRefs?.caspit?.externalId || product.id
UpsertProduct(pos, productId, adapterOutcome) ==
  IF adapterOutcome = "ok"
  THEN [pos EXCEPT !.products = @ \cup {productId}]
  ELSE pos

\* CaspitAdapter.createTaxInvoice: POST /Expenses with a payload that carries
\* no ExpenseId, so each post is a new expense
CreateTaxInvoice(pos, docId, adapterOutcome) ==
  IF adapterOutcome = "ok"
  THEN [pos EXCEPT !.expenses =
          [d \in DOMAIN @ \cup {docId} |->
             IF d # docId THEN @[d]
             ELSE IF d \in DOMAIN @ THEN @[d] + 1 ELSE 1]]
  ELSE pos

\* one adapter call was made and returned `result`
Counted(c, result) ==
  [c EXCEPT !.adapterCalls = @ + 1,
            !.adapterOks = @ + (IF result.success THEN 1 ELSE 0)]

\* getUserSettingsService(userId)
RelaySettings ==
  /\ call.pc = "relaySettings"
  /\ \E ok \in BOOLEAN :
       call' = [call EXCEPT !.pc = IF ~ok THEN "relayCatch"
                                   ELSE IF env.posConfig = Absent THEN "return"
                                   ELSE "relaySupplierRead"]
  /\ UNCHANGED <<suppliers, inventory, documents, env, flowVars, svcVars>>

\* getDoc(supplierDocRef) and the lookup of the supplier's external id
RelaySupplierRead ==
  /\ call.pc = "relaySupplierRead"
  /\ \E ok \in BOOLEAN :
       call' =
         IF ~ok THEN [call EXCEPT !.pc = "relayCatch"]
         ELSE IF call.supplierId \notin DOMAIN suppliers
         THEN [call EXCEPT !.pc = "return"]
         ELSE LET ext == ExternalIdOf(suppliers[call.supplierId], env.posConfig)
              IN [call EXCEPT !.posSupplierId = ext,
                              !.pc = IF ext = Absent THEN "relaySupplierUpsert"
                                     ELSE "relayProducts"]
  /\ UNCHANGED <<suppliers, inventory, documents, env, flowVars, svcVars>>

\* upsertPosSupplierAction and the updateDoc of the supplier's posRefs
RelaySupplierUpsert ==
  /\ call.pc = "relaySupplierUpsert"
  /\ \E o \in AdapterOutcomes, ok \in BOOLEAN :
       LET result == PosActionResult(o)
           c == Counted(call, result)
       IN /\ env' = [env EXCEPT !.pos = UpsertContact(@, call.supplierId, o)]
          /\ IF result.success /\ result.externalId # Absent
             THEN IF ok /\ call.supplierId \in DOMAIN suppliers
                  THEN /\ suppliers' =
                            [suppliers EXCEPT ![call.supplierId] =
                               WithPosRef(@, env.posConfig, result.externalId)]
                       /\ call' = [c EXCEPT !.posSupplierId = result.externalId,
                                            !.pc = "relayProducts"]
                  ELSE /\ call' = [c EXCEPT !.pc = "relayCatch"]
                       /\ UNCHANGED suppliers
             ELSE /\ call' = [c EXCEPT !.pc = "relayCatch"]
                  /\ UNCHANGED suppliers
  /\ UNCHANGED <<inventory, documents, flowVars, svcVars>>

\* one round of the loop over savedOrUpdatedProducts
RelayProduct ==
  /\ call.pc = "relayProducts"
  /\ call.i < Len(call.saved)
  /\ \E o \in AdapterOutcomes, ok \in BOOLEAN :
       LET product == call.saved[call.i + 1]
           result == PosActionResult(o)
           c == [Counted(call, result) EXCEPT !.i = @ + 1]
       IN /\ env' = [env EXCEPT !.pos = UpsertProduct(@, product.id, o)]
          /\ IF result.success /\ result.externalId # Absent
                /\ product.id # Absent
             THEN IF ok /\ product.id \in DOMAIN inventory
                  THEN /\ inventory' =
                            [inventory EXCEPT ![product.id] =
                               WithPosRef(@, env.posConfig, result.externalId)]
                       /\ call' = c
                  ELSE /\ call' = [c EXCEPT !.pc = "relayCatch"]
                       /\ UNCHANGED inventory
             ELSE /\ call' = c
                  /\ UNCHANGED inventory
  /\ UNCHANGED <<suppliers, documents, flowVars, svcVars>>

SyncedDocument(record, systemId, externalId) ==
  LET d == [record EXCEPT !.syncStatus = "success"]
  IN IF externalId = Absent THEN d ELSE WithPosRef(d, systemId, externalId)

\* after the loop: createPosExpenseAction for an invoice, an invoice-receipt or
\* a receipt, and the updateDoc that records the success
RelayExpense ==
  /\ call.pc = "relayProducts"
  /\ call.i = Len(call.saved)
  /\ \E o \in AdapterOutcomes, ok \in BOOLEAN :
       IF env.data.docType \in {"invoice", "invoiceReceipt", "receipt"}
       THEN LET result == PosActionResult(o)
                c == Counted(call, result)
            IN /\ env' = [env EXCEPT
                            !.pos = CreateTaxInvoice(@, call.docId, o)]
               /\ IF result.success /\ result.externalId # Absent
                  THEN IF ok /\ call.docId \in DOMAIN documents
                       THEN /\ documents' =
                                 [documents EXCEPT ![call.docId] =
                                    SyncedDocument(@, env.posConfig,
                                                   result.externalId)]
                            /\ call' = [c EXCEPT !.pc = "return"]
                       ELSE /\ call' = [c EXCEPT !.pc = "relayCatch"]
                            /\ UNCHANGED documents
                  ELSE /\ call' = [c EXCEPT !.pc = "relayCatch"]
                       /\ UNCHANGED documents
       ELSE /\ UNCHANGED env
            /\ IF ok /\ call.docId \in DOMAIN documents
               THEN /\ documents' =
                         [documents EXCEPT ![call.docId] =
                            SyncedDocument(@, env.posConfig, Absent)]
                    /\ call' = [call EXCEPT !.pc = "return"]
               ELSE /\ call' = [call EXCEPT !.pc = "relayCatch"]
                    /\ UNCHANGED documents
  /\ UNCHANGED <<suppliers, inventory, flowVars, svcVars>>

\* catch (posError): the updateDoc that records the error; when it throws,
\* the outer catch rethrows
RelayCatch ==
  /\ call.pc = "relayCatch"
  /\ \E ok \in BOOLEAN :
       IF ok /\ call.docId \in DOMAIN documents
       THEN /\ documents' = [documents EXCEPT ![call.docId].syncStatus = "error"]
            /\ call' = [call EXCEPT !.pc = "return"]
       ELSE /\ call' = [call EXCEPT !.pc = "done", !.outcome = "threw"]
            /\ UNCHANGED documents
  /\ UNCHANGED <<suppliers, inventory, env, flowVars, svcVars>>

\* return { finalInvoiceRecord, savedOrUpdatedProducts }
FinalizeReturn ==
  /\ call.pc = "return"
  /\ call' = [call EXCEPT !.pc = "done", !.outcome = "returned"]
  /\ UNCHANGED <<suppliers, inventory, documents, env, flowVars, svcVars>>

(***************************************************************************)
(* What finalize can be called with, and on which store.                   *)
(***************************************************************************)
ExistingItem ==
  [id |-> "p1", _originalId |-> "p1", catalogNumber |-> "X1", barcode |-> Absent]

NewItem ==
  [id |-> "uuid-2", _originalId |-> "prod-temp-1", catalogNumber |-> "Y9",
   barcode |-> Absent]

FinProductLists ==
  {<< >>, <<ExistingItem>>, <<NewItem>>, <<ExistingItem, NewItem>>,
   <<ScannedItem(1, "Y9")>>}

FinData ==
  [userId : {"u1", Absent}, supplierName : {"acme", "bolt", Absent},
   totalAmount : {7, NullAmount}, paymentTerms : {"net30"},
   osekMorshe : {Absent}, docType : DocTypes,
   existingDocumentId : {TempInvoiceId, Absent},
   products : FinProductLists]

InitFin ==
  /\ \E linked \in BOOLEAN :
       suppliers = [i \in {"s1"} |->
                      IF linked THEN WithPosRef(Acme, PosSystem, "ext-0")
                      ELSE Acme]
  /\ inventory = [i \in {"p1"} |-> KnownProduct]
  /\ documents = [i \in {TempInvoiceId} |-> DocumentDefaults]
  /\ call = NoCall
  /\ \E cfg \in {Absent, PosSystem}, data \in FinData :
       env = [posConfig |-> cfg, data |-> data, calls |-> 0, atStart |-> Absent,
              pos |-> NoExternalRecords]
  /\ PageUnobserved
  /\ ServicesUnobserved

NextFin ==
  \/ FinalizeStart
  \/ TxRead
  \/ TxGetSupplier
  \/ StageSupplier
  \/ StageProductWrites
  \/ StageDocument
  \/ TxCommit
  \/ DeleteSupplier
  \/ RelaySettings
  \/ RelaySupplierRead
  \/ RelaySupplierUpsert
  \/ RelayProduct
  \/ RelayExpense
  \/ RelayCatch
  \/ FinalizeReturn

SpecFin == InitFin /\ [][NextFin]_vars

(***************************************************************************)
(* Finalize called repeatedly for one pending document, with a POS system  *)
(* configured.                                                             *)
(***************************************************************************)
RepeatData ==
  [userId : {"u1"}, supplierName : {"acme", "bolt"},
   totalAmount : {7}, paymentTerms : {"net30"}, osekMorshe : {Absent},
   docType : {"deliveryNote", "invoice"},
   existingDocumentId : {TempInvoiceId},
   products : {<< >>, <<ExistingItem>>, <<NewItem>>}]

InitRepeat ==
  /\ \E linked \in BOOLEAN :
       suppliers = [i \in {"s1"} |->
                      IF linked THEN WithPosRef(Acme, PosSystem, "ext-0")
                      ELSE Acme]
  /\ inventory = [i \in {"p1"} |-> KnownProduct]
  /\ documents = [i \in {TempInvoiceId} |-> DocumentDefaults]
  /\ call = NoCall
  /\ \E data \in RepeatData :
       env = [posConfig |-> PosSystem, data |-> data, calls |-> 0,
              atStart |-> Absent, pos |-> NoExternalRecords]
  /\ PageUnobserved
  /\ ServicesUnobserved

NextRepeat ==
  \/ NextFin
  \/ FinalizeRepeat

SpecRepeat == InitRepeat /\ [][NextRepeat]_vars

(***************************************************************************)
(* Two finalize calls of one user at the same time: the call followed step *)
(* by step, and the call of another session, followed in svc from the      *)
(* reads of its callback to its commit. No POS system is configured.       *)
(***************************************************************************)
OtherInvoiceId == "d4"     \* the pending document the other session saves

\* doc(collectionRef) in the other session: auto-generated ids of two sessions
\* never coincide, so this one comes from the far end of the pool
FreshIdElsewhere(pool, used) ==
  pool[CHOOSE i \in DOMAIN pool :
         /\ pool[i] \notin used
         /\ \A j \in DOMAIN pool : pool[j] \notin used => j <= i]

OtherCallIdle ==
  [pc |-> "idle", attempts |-> 0, existing |-> Absent, readStore |-> Absent,
   outcome |-> Absent]

\* the arguments of the other session's call: the same user and supplier
\* name, another pending document and total, no line items
OtherData(data) ==
  [data EXCEPT !.totalAmount = 3,
               !.existingDocumentId = OtherInvoiceId,
               !.products = << >>]

\* what a run of the other session's callback stages: the supplier write on
\* the data it read, then the document
OtherCallbackWrites(st, data, existing) ==
  LET sid == IF existing # Absent THEN existing
             ELSE FreshIdElsewhere(SupplierIdPool, DOMAIN suppliers)
  IN <<[SupplierWrite(st, data, existing) EXCEPT !.id = sid],
       DocumentWrite(st, data, sid, << >>)>>

\* a run of the other session's callback: transaction.get(existingDocRef),
\* the supplier query and transaction.get of the supplier it found
OtherTxRead ==
  /\ svc.result.pc = "idle"
  /\ svc.result.attempts < MaxAttempts
  /\ svc' = [svc EXCEPT
              !.result = [@ EXCEPT
                 !.pc = "commit",
                 !.attempts = @ + 1,
                 !.existing = SupplierByName(suppliers, svc.args.supplierName),
                 !.readStore = Store]]
  /\ UNCHANGED <<suppliers, inventory, documents, flowVars, finVars, aiScan>>

\* the other session's commit: a supplier document it read has changed, and
\* the callback runs again, or its writes are applied
OtherTxCommit ==
  /\ svc.result.pc = "commit"
  /\ LET r == svc.result
         conflict == /\ r.existing # Absent
                     /\ \/ r.existing \notin DOMAIN suppliers
                        \/ suppliers[r.existing] # r.readStore.suppliers[r.existing]
     IN IF conflict
        THEN /\ svc' = [svc EXCEPT !.result =
                          IF r.attempts < MaxAttempts
                          THEN [r EXCEPT !.pc = "idle"]
                          ELSE [r EXCEPT !.pc = "done", !.outcome = "threw"]]
             /\ UNCHANGED <<suppliers, inventory, documents>>
        ELSE /\ StoreBecomes(
                  ApplyWrites(Store,
                              OtherCallbackWrites(r.readStore, svc.args,
                                                  r.existing)))
             /\ svc' = [svc EXCEPT !.result =
                          [r EXCEPT !.pc = "done", !.outcome = "returned"]]
  /\ UNCHANGED <<flowVars, finVars, aiScan>>

PairData ==
  [userId : {"u1"}, supplierName : {"acme", "bolt"},
   totalAmount : {7, NullAmount}, paymentTerms : {"net30"},
   osekMorshe : {Absent}, docType : {"deliveryNote", "invoice"},
   existingDocumentId : {TempInvoiceId},
   products : {<< >>, <<ExistingItem>>, <<NewItem>>}]

InitPair ==
  /\ suppliers = [i \in {"s1"} |-> Acme]
  /\ inventory = [i \in {"p1"} |-> KnownProduct]
  /\ documents = [i \in {TempInvoiceId, OtherInvoiceId} |-> DocumentDefaults]
  /\ call = NoCall
  /\ \E data \in PairData :
       /\ env = [posConfig |-> Absent, data |-> data, calls |-> 0,
                 atStart |-> Absent, pos |-> NoExternalRecords]
       /\ svc = [op |-> "finalizeSaveProducts", args |-> OtherData(data),
                 result |-> OtherCallIdle]
  /\ PageUnobserved
  /\ aiScan = Absent

NextPair ==
  \/ FinalizeStart
  \/ TxRead
  \/ TxGetSupplier
  \/ StageSupplier
  \/ StageProductWrites
  \/ StageDocument
  \/ TxCommit
  \/ RelaySettings
  \/ RelayCatch
  \/ FinalizeReturn
  \/ OtherTxRead
  \/ OtherTxCommit

SpecPair == InitPair /\ [][NextPair]_vars

(***************************************************************************)
(* scanDocument and scanDocumentFlow: the retry loop around the AI prompt, *)
(* the supplier lookup that follows, and the value returned.               *)
(***************************************************************************)
MaxRetries == 3        \* const maxRetries = 3
InitialDelay == 1000   \* let delay = 1000

\* An error message is the set of fragments its lower-cased text contains;
\* an error without a message contains none.
ErrorMessages ==
  {{"503"}, {"service unavailable"}, {"model is overloaded"}, {"429"},
   {"rate limit"}, {"permission denied"}, {}}

\* what one call of prompt(input) ends in: an output (valid against
\* DocumentPromptOutputSchema, null, not an object, or an object the schema
\* rejects) or a thrown error
PromptOutcomes ==
  {[kind |-> "output", value |-> v, message |-> {}] :
     v \in {"valid", "null", "string", "badObject"}}
  \cup {[kind |-> "error", value |-> Absent, message |-> m] :
          m \in ErrorMessages}

\* promptError.message?.includes(fragment)
Includes(message, fragment) == fragment \in message

\* a predicate under which every thrown error is retried
AnyPromptError(message) == TRUE

\* isServiceUnavailable || isRateLimit
IsServiceUnavailableOrRateLimit(message) ==
  \/ Includes(message, "503")
  \/ Includes(message, "service unavailable")
  \/ Includes(message, "model is overloaded")
  \/ Includes(message, "429")
  \/ Includes(message, "rate limit")

\* output === null || typeof output !== "object"
NullOrNonObject(value) == value \in {"null", "string"}

\* the branch of the loop body that waits and tries again
Retries(outcome, currentRetry) ==
  /\ currentRetry < MaxRetries - 1
  /\ IF outcome.kind = "output" THEN NullOrNonObject(outcome.value)
     ELSE IsServiceUnavailableOrRateLimit(outcome.message)

\* { error: ..., products: [] }
ScanError(text) == [kind |-> "error", error |-> text, products |-> << >>]

\* a tax id is the sequence of its characters, << >> when there is none
NoTaxId == << >>

\* osekMorshe.replace(/-/g, "")
WithoutHyphens(digits) == SelectSeq(digits, LAMBDA c : c # "-")

\* adminDb.collection("users").where("osekMorshe", "==", value).limit(1).get():
\* the documents the query ranges over, as paths
UsersCollectionPaths(users) == {<<"users", u>> : u \in DOMAIN users}

\* the ids of the users collection, in the order a query returns them
UserIdPool == <<"u1", "u2">>

\* the first document of the users collection with that osekMorshe
FirstUserDocWith(users, osekMorshe) ==
  LET hits == {i \in DOMAIN UserIdPool :
                 /\ UserIdPool[i] \in DOMAIN users
                 /\ users[UserIdPool[i]].osekMorshe = osekMorshe}
  IN IF hits = {} THEN Absent
     ELSE UserIdPool[CHOOSE i \in hits : \A j \in hits : i <= j]

\* catch (error) of scanDocument
UnhandledScanError(message) == ScanError("unhandled server error")

ScanIdle(input, users, reading) ==
  [pc |-> "idle", input |-> input, users |-> users, reading |-> reading,
   userId |-> Absent, currentRetry |-> 0, delay |-> InitialDelay,
   promptCalls |-> 0, lastOutcome |-> Absent, waits |-> << >>,
   raw |-> Absent, ranged |-> {}, result |-> Absent]

\* scanDocument up to the call of the flow; userId is
\* input.userId || auth.currentUser?.uid, and a server action has no
\* currentUser
ScanDocument ==
  /\ aiScan.pc = "idle"
  /\ aiScan' =
       IF aiScan.input.invoiceDataUri = Absent
       THEN [aiScan EXCEPT !.pc = "done",
                           !.result = ScanError("missing invoice image data")]
       ELSE [aiScan EXCEPT !.pc = "prompt", !.userId = aiScan.input.userId]
  /\ UNCHANGED <<suppliers, inventory, documents, flowVars, finVars, svc>>

\* one round of the while loop: prompt(input), safeParse, and the branch taken
PromptCall ==
  /\ aiScan.pc = "prompt"
  /\ \E o \in PromptOutcomes :
       LET c == [aiScan EXCEPT !.promptCalls = @ + 1, !.lastOutcome = o]
       IN aiScan' =
            IF o.kind = "output" /\ o.value = "valid"
            THEN [c EXCEPT !.raw = aiScan.reading, !.pc = "lookup"]
            ELSE IF Retries(o, aiScan.currentRetry)
            THEN [c EXCEPT !.currentRetry = @ + 1, !.pc = "waiting"]
            ELSE [c EXCEPT
                    !.pc = "done",
                    !.result =
                      IF o.kind = "output"
                      THEN ScanError("AI output validation failed")
                      ELSE IF Includes(o.message, "503")
                              \/ Includes(o.message, "service unavailable")
                              \/ Includes(o.message, "model is overloaded")
                      THEN ScanError("temporarily unavailable")
                      ELSE ScanError("AI Scan Error")]
  /\ UNCHANGED <<suppliers, inventory, documents, flowVars, finVars, svc>>

\* the setTimeout of a retry has fired: delay *= 2 and the loop condition
BackoffElapsed ==
  /\ aiScan.pc = "waiting"
  /\ LET c == [aiScan EXCEPT
                 !.waits = Append(@, [delay |-> aiScan.delay,
                                      after |-> aiScan.lastOutcome]),
                 !.delay = @ * 2]
     IN aiScan' =
          IF aiScan.currentRetry < MaxRetries
          THEN [c EXCEPT !.pc = "prompt"]
          ELSE [c EXCEPT !.pc = "done",
                         !.result = ScanError("failed after multiple retries")]
  /\ UNCHANGED <<suppliers, inventory, documents, flowVars, finVars, svc>>

\* after the loop: the osekMorshe is sanitized, the supplier is looked up and
\* finalOutput is returned; what the flow throws is caught by scanDocument
SupplierLookup ==
  /\ aiScan.pc = "lookup"
  /\ \E queryOk \in BOOLEAN, flowThrows \in BOOLEAN :
       LET osekMorshe == WithoutHyphens(aiScan.raw.osekMorshe)
           queried == osekMorshe # NoTaxId /\ aiScan.userId # Absent
           found == IF queried /\ queryOk
                    THEN FirstUserDocWith(aiScan.users, osekMorshe)
                    ELSE Absent
       IN aiScan' =
            [aiScan EXCEPT
               !.pc = "done",
               !.ranged = IF queried THEN UsersCollectionPaths(aiScan.users)
                          ELSE {},
               !.result =
                 IF flowThrows THEN UnhandledScanError("flow failed")
                 ELSE [kind |-> "result", error |-> Absent,
                       supplierId |-> found,
                       supplierName |->
                         IF found = Absent THEN aiScan.raw.supplierName
                         ELSE aiScan.users[found].name,
                       osekMorshe |-> osekMorshe,
                       products |-> aiScan.raw.products]]
  /\ UNCHANGED <<suppliers, inventory, documents, flowVars, finVars, svc>>

\* what the AI reads off the scanned document when its output is valid
Readings ==
  [supplierName : {"acme", "bolt"},
   osekMorshe : {NoTaxId, <<"5", "1", "-", "7">>, <<"9", "9">>},
   products : {<< >>, <<"item">>}]

\* the documents of the top-level users collection: the caller's own and
\* another user's, with or without an osekMorshe field
UserDocs ==
  [{"u1", "u2"} -> [name : {Absent, "own business"},
                    osekMorshe : {NoTaxId, <<"5", "1", "7">>}]]

ScanInputs == [invoiceDataUri : {"data-uri", Absent}, userId : {"u1", Absent}]

InitScan ==
  /\ suppliers = [i \in {"s1"} |-> Acme]
  /\ inventory = [i \in {"p1"} |-> KnownProduct]
  /\ documents = [i \in {TempInvoiceId} |-> DocumentDefaults]
  /\ FinIdle
  /\ PageUnobserved
  /\ svc = Absent
  /\ \E input \in ScanInputs, users \in UserDocs, reading \in Readings :
       /\ users["u1"].name = Absent
       /\ aiScan = ScanIdle(input, users, reading)

NextScan ==
  \/ ScanDocument
  \/ PromptCall
  \/ BackoffElapsed
  \/ SupplierLookup

\* every await of the flow resolves or rejects in the end
SpecScan == InitScan /\ [][NextScan]_vars /\ WF_vars(NextScan)

(***************************************************************************)
(* Properties of the scan, checked under SpecScan.                         *)
(***************************************************************************)
\* C15: every document a query of the scan ranges over lies under
\* users/<the caller's id>/<a collection of theirs>
C15_QueriesUserScoped ==
  aiScan.ranged # {} =>
    \A path \in aiScan.ranged :
      /\ Len(path) >= 3
      /\ path[1] = "users"
      /\ path[2] = aiScan.userId

\* the failures the retry is meant for: 503 / unavailable / overloaded,
\* 429 / rate limit, or an output that is null or not an object
C20_Transient(outcome) ==
  IF outcome.kind = "error"
  THEN outcome.message \cap {"503", "service unavailable",
                             "model is overloaded", "429", "rate limit"} # {}
  ELSE outcome.value \in {"null", "string"}

C20_BoundedBackoff ==
  /\ aiScan.promptCalls <= 3
  /\ aiScan.promptCalls <= Len(aiScan.waits) + 1
  /\ \A i \in DOMAIN aiScan.waits :
       /\ C20_Transient(aiScan.waits[i].after)
       /\ aiScan.waits[i].delay = 1000 * (2 ^ (i - 1))
  /\ aiScan.pc = "done" =>
       \/ aiScan.result.kind = "result"
       \/ /\ aiScan.result.kind = "error"
          /\ aiScan.result.error # Absent
          /\ aiScan.result.products = << >>

\* C20: a scan calls the prompt at most 3 times, each further call follows a
\* transient failure and a wait of 1000 ms doubled per retry, the scan ends,
\* and it ends in a result or in {error, products: []}, never in a throw
C20_RetriesAndTerminates ==
  /\ []C20_BoundedBackoff
  /\ <>(aiScan.pc = "done")

\* C20: a scan that called the prompt three times, the first two calls
\* failing transiently, and returned a result
C20_Witness ==
  /\ aiScan.pc = "done"
  /\ aiScan.promptCalls = 3
  /\ Len(aiScan.waits) = 2
  /\ aiScan.waits[2].delay = 2000
  /\ aiScan.result.kind = "result"

(***************************************************************************)
(* Service calls on the inventory: the price check before a save, product  *)
(* deactivation and the clearing of the inventory; and getPosAdapter.      *)
(* Unit prices are counted in ten-thousandths.                             *)
(***************************************************************************)
MaxItems == 2          \* line items in one price check
PriceEpsilon == 10     \* 0.001

Abs(x) == IF x < 0 THEN 0 - x ELSE x

\* Number(product.unitPrice) || 0
UnitPriceOf(product) ==
  IF "unitPrice" \in DOMAIN product /\ product.unitPrice # NullAmount
  THEN product.unitPrice
  ELSE 0

\* a comparison that counts a difference of exactly the epsilon
PriceDiffersInclusive(existingUnitPrice, newUnitPrice) ==
  Abs(existingUnitPrice - newUnitPrice) >= PriceEpsilon

\* Math.abs(existingUnitPrice - newUnitPrice) > 0.001
PriceDiffers(existingUnitPrice, newUnitPrice) ==
  Abs(existingUnitPrice - newUnitPrice) > PriceEpsilon

\* !!value of a string field
Truthy(value) == value # Absent

\* productsToCheck.map(p => p[field]).filter(v => !!v)
FieldValues(products, field) ==
  {products[i][field] : i \in {j \in DOMAIN products :
                                 Truthy(products[j][field])}}

\* getDocs(query(inventoryRef, where(field, "in", chunk))): the documents in
\* the order of their ids; the lists here fit one chunk of 10
RECURSIVE FetchBy(_, _, _, _)
FetchBy(inv, field, values, k) ==
  IF k > Len(ProductIdPool) THEN << >>
  ELSE LET id == ProductIdPool[k]
           rest == FetchBy(inv, field, values, k + 1)
       IN IF id \in DOMAIN inv /\ inv[id][field] \in values
          THEN <<inv[id]>> \o rest
          ELSE rest

\* addProductToMap(product)
AddProductToMap(m, product) ==
  LET m1 == IF Truthy(product.catalogNumber)
               /\ product.catalogNumber \notin DOMAIN m
            THEN Merge(m, [x \in {product.catalogNumber} |-> product])
            ELSE m
  IN IF Truthy(product.barcode) /\ product.barcode \notin DOMAIN m1
     THEN Merge(m1, [x \in {product.barcode} |-> product])
     ELSE m1

RECURSIVE AddAllToMap(_, _)
AddAllToMap(m, fetched) ==
  IF fetched = << >> THEN m
  ELSE AddAllToMap(AddProductToMap(m, Head(fetched)), Tail(fetched))

\* existingProductsMap after both fetchInChunks calls
ExistingProductsMap(inv, products) ==
  AddAllToMap(
    AddAllToMap(EmptyMap,
                FetchBy(inv, "catalogNumber",
                        FieldValues(products, "catalogNumber"), 1)),
    FetchBy(inv, "barcode", FieldValues(products, "barcode"), 1))

\* the key under which the map has a record for the product: its catalog
\* number first, then its barcode; << >> when the lookup is undefined
MatchingKeys(m, product) ==
  IF Truthy(product.catalogNumber) /\ product.catalogNumber \in DOMAIN m
  THEN <<product.catalogNumber>>
  ELSE IF Truthy(product.barcode) /\ product.barcode \in DOMAIN m
  THEN <<product.barcode>>
  ELSE << >>

\* the loop over productsToCheck
RECURSIVE ClassifyProducts(_, _, _)
ClassifyProducts(m, products, acc) ==
  IF products = << >> THEN acc
  ELSE LET product == Head(products)
           keys == MatchingKeys(m, product)
           existing == m[keys[1]]
       IN ClassifyProducts(
            m, Tail(products),
            IF keys = << >>
            THEN [acc EXCEPT !.productsToSaveDirectly = Append(@, product)]
            ELSE IF PriceDiffers(UnitPriceOf(existing), UnitPriceOf(product))
            THEN [acc EXCEPT !.priceDiscrepancies =
                    Append(@, Merge(product,
                                    [id |-> existing.id,
                                     existingUnitPrice |-> UnitPriceOf(existing),
                                     newUnitPrice |-> UnitPriceOf(product)]))]
            ELSE [acc EXCEPT !.productsToSaveDirectly =
                    Append(@, Merge(product, [id |-> existing.id]))])

\* checkProductPricesBeforeSaveService(productsToCheck, userId)
CheckProductPricesBeforeSave(inv, productsToCheck) ==
  IF FieldValues(productsToCheck, "catalogNumber") = {}
     /\ FieldValues(productsToCheck, "barcode") = {}
  THEN [productsToSaveDirectly |-> productsToCheck,
        priceDiscrepancies |-> << >>]
  ELSE ClassifyProducts(ExistingProductsMap(inv, productsToCheck),
                        productsToCheck,
                        [productsToSaveDirectly |-> << >>,
                         priceDiscrepancies |-> << >>])

\* a factory that falls back to an adapter for an id it does not know
GetPosAdapterDefaulting(systemId, credentials) ==
  [kind |-> "adapter", systemId |-> "hashavshevet", error |-> Absent,
   constructed |-> 1, requests |-> 0]

\* new CaspitAdapter(credentials): the constructor checks the configuration
NewCaspitAdapter(config) ==
  IF \/ config.systemId # "caspit"
     \/ config.user = Absent
     \/ config.pwd = Absent
     \/ config.osekMorshe = Absent
  THEN [kind |-> "threw", systemId |-> Absent,
        error |-> "Caspit credentials are not complete",
        constructed |-> 1, requests |-> 0]
  ELSE [kind |-> "adapter", systemId |-> "caspit", error |-> Absent,
        constructed |-> 1, requests |-> 0]

\* getPosAdapter(systemId, credentials)
GetPosAdapter(systemId, credentials) ==
  CASE systemId = "caspit" -> NewCaspitAdapter(credentials)
    [] systemId = "hashavshevet" ->
         [kind |-> "adapter", systemId |-> "hashavshevet", error |-> Absent,
          constructed |-> 1, requests |-> 0]
    [] OTHER ->
         [kind |-> "threw", systemId |-> Absent,
          error |-> "POS adapter not found", constructed |-> 0,
          requests |-> 0]

NoServiceCall == [op |-> Absent, args |-> Absent, result |-> Absent]

\* a scanned line item as the price check receives it; catalog numbers and
\* barcodes are free text, so a catalog number may read as some barcode does
Candidates ==
  [id : {"uuid-1"}, catalogNumber : {"X1", "B1", NotApplicable, Absent},
   barcode : {"B1", Absent}, unitPrice : {1000, 1010, 1011, 1100, NullAmount}]

RECURSIVE ListsUpTo(_, _)
ListsUpTo(S, n) ==
  IF n = 0 THEN {<< >>}
  ELSE LET shorter == ListsUpTo(S, n - 1)
       IN shorter \cup {Append(l, x) : l \in shorter, x \in S}

SystemIds == {"caspit", "hashavshevet", "Caspit", "rivhit", Absent}

PosConfigs ==
  [systemId : SystemIds, user : {"user", Absent}, pwd : {"pwd"},
   osekMorshe : {"t9"}]

\* the caller passes the line items of the scan, svc.args
CheckProductPrices ==
  /\ svc' = [svc EXCEPT
              !.op = "checkProductPrices",
              !.result = CheckProductPricesBeforeSave(inventory, svc.args)]
  /\ UNCHANGED <<suppliers, inventory, documents, flowVars, finVars, aiScan>>

\* the filter of checkForNewProductsAndDetails on the inventory it fetched
CheckForNewProducts ==
  /\ svc' = [svc EXCEPT
              !.op = "checkForNewProducts",
              !.result = ProductsNeedingReview(svc.args, inventory)]
  /\ UNCHANGED <<suppliers, inventory, documents, flowVars, finVars, aiScan>>

GetPosAdapterCall ==
  /\ \E config \in PosConfigs :
       svc' = [op |-> "getPosAdapter", args |-> config,
               result |-> GetPosAdapter(config.systemId, config)]
  /\ UNCHANGED <<suppliers, inventory, documents, flowVars, finVars, aiScan>>

ServiceProductIds == {"p1", "p2", "p5"}

\* deleteProductService(productId, userId); `failing` is the await that
\* rejects, if any. deactivatePosProductAction is adapter.upsertProduct of
\* the product with isActive false, and what it throws is swallowed
DeleteProductService ==
  /\ \E productId \in ServiceProductIds,
        failing \in {"none", "getDoc", "updateDoc", "getUserSettings"},
        o \in AdapterOutcomes :
       LET found == productId \in DOMAIN inventory
           updated == found /\ failing \notin {"getDoc", "updateDoc"}
           relayed == updated /\ failing = "none" /\ env.posConfig # Absent
       IN /\ inventory' =
               IF updated
               THEN [inventory EXCEPT ![productId].isActive = FALSE]
               ELSE inventory
          /\ env' = IF relayed
                    THEN [env EXCEPT !.pos = UpsertProduct(@, productId, o)]
                    ELSE env
          /\ svc' = [op |-> "deleteProduct", args |-> productId,
                     result |-> IF updated /\ failing = "none" THEN "ok"
                                ELSE "threw"]
  /\ UNCHANGED <<suppliers, documents, flowVars, call, aiScan>>

\* an update that also rewrites the line items of the documents that refer
\* to the product
UpdateDocAndLineItems(st, productId, productData) ==
  [st EXCEPT
     !.inventory = [@ EXCEPT ![productId] = Merge(@, productData)],
     !.documents =
        [d \in DOMAIN st.documents |->
           [st.documents[d] EXCEPT !.products =
              [i \in DOMAIN @ |->
                 IF @[i].id = productId THEN Merge(@[i], productData)
                 ELSE @[i]]]]]

\* updateDoc(productRef, dataToUpdate)
UpdateDocOfProduct(st, productId, productData) ==
  [st EXCEPT !.inventory = [@ EXCEPT ![productId] = Merge(@, productData)]]

\* the fields a caller of updateProductService changes
ProductUpdates == {[unitPrice |-> 1200], [catalogNumber |-> "Z9"]}

\* updateProductService(productId, productData, userId); `failing` is the
\* await that rejects, if any. The product is posted to the POS system after
\* the update, and a failure of the adapter is only logged
UpdateProductService ==
  /\ \E productId \in ServiceProductIds, productData \in ProductUpdates,
        failing \in {"none", "getDoc", "updateDoc", "getUserSettings"},
        o \in AdapterOutcomes :
       LET found == productId \in DOMAIN inventory
           updated == found /\ failing \notin {"getDoc", "updateDoc"}
           relayed == updated /\ failing = "none" /\ env.posConfig # Absent
       IN /\ StoreBecomes(IF updated
                          THEN UpdateDocOfProduct(Store, productId, productData)
                          ELSE Store)
          /\ env' = IF relayed
                    THEN [env EXCEPT !.pos = UpsertProduct(@, productId, o)]
                    ELSE env
          /\ svc' = [op |-> "updateProduct", args |-> productId,
                     result |-> IF updated /\ failing = "none" THEN "ok"
                                ELSE "threw"]
  /\ UNCHANGED <<flowVars, call, aiScan>>

\* reactivateProductService(productId, userId)
ReactivateProductService ==
  /\ \E productId \in ServiceProductIds, ok \in BOOLEAN :
       LET updated == ok /\ productId \in DOMAIN inventory
       IN /\ inventory' =
               IF updated
               THEN [inventory EXCEPT ![productId].isActive = TRUE]
               ELSE inventory
          /\ svc' = [op |-> "reactivateProduct", args |-> productId,
                     result |-> IF updated THEN "ok" ELSE "threw"]
  /\ UNCHANGED <<suppliers, documents, flowVars, finVars, aiScan>>

\* clearInventoryService(userId): one batch that deletes every document of
\* the inventory collection
ClearInventoryService ==
  /\ \E ok \in BOOLEAN :
       /\ inventory' = IF ok THEN EmptyMap ELSE inventory
       /\ svc' = [op |-> "clearInventory", args |-> Absent,
                  result |-> IF ok THEN "ok" ELSE "threw"]
  /\ UNCHANGED <<suppliers, documents, flowVars, finVars, aiScan>>

\* the inventory and the completed document two finalize calls have left:
\* one product with a catalog number and a barcode, one saved without a
\* catalog number of its own
StockedProduct ==
  Merge(ProductDefaults,
        [id |-> "p1", catalogNumber |-> "X1", barcode |-> "B1",
         unitPrice |-> 1000])

UncataloguedProduct ==
  Merge(ProductDefaults,
        [id |-> "p2", catalogNumber |-> NotApplicable, barcode |-> Absent,
         unitPrice |-> 1000])

CompletedDeliveryNote ==
  Merge(DocumentDefaults,
        InvoiceData([docType |-> "deliveryNote", supplierName |-> "acme",
                     totalAmount |-> 7, paymentTerms |-> "net30"],
                    "s1",
                    <<[id |-> "p1", catalogNumber |-> "X1", barcode |-> "B1",
                       unitPrice |-> 1000],
                      [id |-> "p2", catalogNumber |-> NotApplicable,
                       barcode |-> Absent, unitPrice |-> 1000]>>))

StoreAfterSaves ==
  /\ suppliers = [i \in {"s1"} |-> Acme]
  /\ inventory = [i \in {"p1", "p2"} |->
                    IF i = "p1" THEN StockedProduct ELSE UncataloguedProduct]
  /\ documents = [i \in {"d1"} |-> CompletedDeliveryNote]
  /\ call = NoCall

InitSvc ==
  /\ StoreAfterSaves
  /\ \E cfg \in {Absent, PosSystem} :
       env = [posConfig |-> cfg, data |-> Absent, calls |-> 0,
              atStart |-> Absent, pos |-> NoExternalRecords]
  /\ PageUnobserved
  /\ svc = NoServiceCall
  /\ aiScan = Absent

NextSvc ==
  \/ GetPosAdapterCall
  \/ DeleteProductService
  \/ ReactivateProductService
  \/ ClearInventoryService

SpecSvc == InitSvc /\ [][NextSvc]_vars

\* a finalize call for another document next to the product services: the
\* call saves product p1 at a new price, or a new product
RepricedItem ==
  [id |-> "p1", _originalId |-> "p1", catalogNumber |-> "X1", barcode |-> "B1",
   unitPrice |-> 1100]

SnapshotData ==
  [userId : {"u1"}, supplierName : {"acme", "bolt"}, totalAmount : {7},
   paymentTerms : {"net30"}, osekMorshe : {Absent},
   docType : {"deliveryNote", "invoice"}, existingDocumentId : {Absent},
   products : {<<RepricedItem>>, <<NewItem>>}]

InitSnapshot ==
  /\ StoreAfterSaves
  /\ \E cfg \in {Absent, PosSystem}, data \in SnapshotData :
       env = [posConfig |-> cfg, data |-> data, calls |-> 0,
              atStart |-> Absent, pos |-> NoExternalRecords]
  /\ PageUnobserved
  /\ svc = NoServiceCall
  /\ aiScan = Absent

\* the services are called on product p1, which the completed document
\* embeds, after the finalize call has ended
LaterUpdateProduct ==
  /\ call.pc = "done"
  /\ UpdateProductService
  /\ svc'.args = "p1"

LaterDeleteProduct ==
  /\ call.pc = "done"
  /\ DeleteProductService
  /\ svc'.args = "p1"

NextSnapshot ==
  \/ NextFin
  \/ LaterUpdateProduct
  \/ LaterDeleteProduct

SpecSnapshot == InitSnapshot /\ [][NextSnapshot]_vars

\* the two checks of a scan's line items against the inventory
InitPrice ==
  /\ StoreAfterSaves
  /\ env = [posConfig |-> Absent, data |-> Absent, calls |-> 0,
            atStart |-> Absent, pos |-> NoExternalRecords]
  /\ PageUnobserved
  /\ \E products \in ListsUpTo(Candidates, MaxItems) :
       svc = [op |-> Absent, args |-> products, result |-> Absent]
  /\ aiScan = Absent

NextPrice ==
  \/ CheckProductPrices
  \/ CheckForNewProducts

SpecPrice == InitPrice /\ [][NextPrice]_vars

(***************************************************************************)
(* Properties of the service calls, checked under SpecSvc and SpecPrice.   *)
(***************************************************************************)
\* C16: every product a line item of a completed document refers to is a
\* document of the inventory collection
C16_ReferencedProductsKept ==
  \A d \in DOMAIN documents :
    documents[d].status = "completed" =>
      \A i \in DOMAIN documents[d].products :
        documents[d].products[i].id \in DOMAIN inventory

C18_NotApplicableNeverMatches ==
  /\ svc.op = "checkProductPrices" =>
       \A list \in {svc.result.productsToSaveDirectly,
                    svc.result.priceDiscrepancies} :
         \A i \in DOMAIN list :
           (list[i].catalogNumber = NotApplicable /\ list[i].barcode = Absent)
             => list[i].id \notin DOMAIN inventory
  /\ svc.op = "checkForNewProducts" =>
       \A i \in DOMAIN svc.args :
         (svc.args[i].catalogNumber = NotApplicable
          /\ svc.args[i].barcode = Absent)
           => \E j \in DOMAIN svc.result : svc.result[j] = svc.args[i]

\* the inventory records with the candidate's catalog number or its barcode
C33_Matches(p) ==
  {id \in DOMAIN inventory :
     \/ Truthy(p.catalogNumber) /\ inventory[id].catalogNumber = p.catalogNumber
     \/ Truthy(p.barcode) /\ inventory[id].barcode = p.barcode}

\* the two lists are the candidates in order, each in one list: an unmatched
\* candidate as it is in `direct`, a matched one with the record's id in
\* `direct` when the prices are equal, and with the record's id and both
\* prices in `discrepancies` when they differ
RECURSIVE C33_Partitioned(_, _, _)
C33_Partitioned(candidates, direct, discrepancies) ==
  IF candidates = << >> THEN direct = << >> /\ discrepancies = << >>
  ELSE LET p == Head(candidates)
       IN IF C33_Matches(p) = {}
          THEN /\ direct # << >>
               /\ Head(direct) = p
               /\ C33_Partitioned(Tail(candidates), Tail(direct), discrepancies)
          ELSE \E m \in C33_Matches(p) :
                 LET old == UnitPriceOf(inventory[m])
                     new == UnitPriceOf(p)
                 IN IF Abs(old - new) > PriceEpsilon
                    THEN /\ discrepancies # << >>
                         /\ Head(discrepancies) =
                              Merge(p, [id |-> m, existingUnitPrice |-> old,
                                        newUnitPrice |-> new])
                         /\ C33_Partitioned(Tail(candidates), direct,
                                            Tail(discrepancies))
                    ELSE /\ direct # << >>
                         /\ Head(direct) = Merge(p, [id |-> m])
                         /\ C33_Partitioned(Tail(candidates), Tail(direct),
                                            discrepancies)

\* C33: the price check returns its candidates partitioned: unmatched ones
\* and matched ones with an equal price in productsToSaveDirectly, the matched
\* ones under the id of the matched record; matched ones with a differing
\* price in priceDiscrepancies with existingUnitPrice and newUnitPrice
C33_PartitionsInput ==
  svc.op = "checkProductPrices" =>
    C33_Partitioned(svc.args, svc.result.productsToSaveDirectly,
                    svc.result.priceDiscrepancies)

\* the entries of both lists of the price check's result
C34_Entries ==
  {svc.result.productsToSaveDirectly[i] :
     i \in DOMAIN svc.result.productsToSaveDirectly}
    \cup {svc.result.priceDiscrepancies[i] :
            i \in DOMAIN svc.result.priceDiscrepancies}

\* C34: an entry of the price check's result that carries the id of an
\* inventory record has that record's catalog number as its catalog number or
\* that record's barcode as its barcode
C34_SameFieldOnly ==
  svc.op = "checkProductPrices" =>
    \A e \in C34_Entries :
      e.id \in DOMAIN inventory =>
        \/ Truthy(e.catalogNumber)
             /\ e.catalogNumber = inventory[e.id].catalogNumber
        \/ Truthy(e.barcode) /\ e.barcode = inventory[e.id].barcode

\* C19: getPosAdapter returns the Caspit adapter only for "caspit" and the
\* Hashavshevet adapter only for "hashavshevet", and for every other id throws
\* the unsupported-system error, having constructed no adapter and sent no
\* request
C19_AdapterBySystemId ==
  svc.op = "getPosAdapter" =>
    LET id == svc.args.systemId
        r == svc.result
    IN /\ r.kind = "adapter" => (r.systemId = id
                                 /\ id \in {"caspit", "hashavshevet"})
       /\ id = "hashavshevet" => r.kind = "adapter"
       /\ (id = "caspit" /\ svc.args.user # Absent) => r.kind = "adapter"
       /\ id \notin {"caspit", "hashavshevet"} =>
            /\ r.kind = "threw"
            /\ r.error = "POS adapter not found"
            /\ r.constructed = 0
       /\ r.requests = 0

\* C19: getPosAdapter was called with an id that differs from "caspit" only
\* in case, and threw
C19_Witness ==
  /\ svc.op = "getPosAdapter"
  /\ svc.args.systemId = "Caspit"
  /\ svc.result.kind = "threw"
  /\ svc.result.constructed = 0

(***************************************************************************)
(* Properties of finalize, checked under SpecFin.                          *)
(***************************************************************************)
\* C1: until the transaction of a call has committed, and after it failed,
\* the store is what it was when the call started: no supplier counter, no
\* inventory record and no document field of the call is in it
C1_AllOrNothing ==
  (call.pc # "idle" /\ ~call.committed) => Store = env.atStart

\* C1: the call failed to its caller after the supplier write and product
\* writes of the callback were staged
C1_Witness ==
  /\ call.outcome = "threw"
  /\ ~call.committed
  /\ call.supplierId # Absent
  /\ Len(call.saved) > 0
  /\ env.data.totalAmount > 0

PosRefsAsAtStart(coll) ==
  \A i \in DOMAIN Store[coll] :
    Store[coll][i].posRefs =
      IF i \in DOMAIN env.atStart[coll] THEN env.atStart[coll][i].posRefs
      ELSE EmptyMap

\* C2: a call with a POS system configured whose adapter calls all threw ends
\* with the document completed, syncStatus error, and no posRefs entry added
\* to a supplier or a product
C2_RelayIsolation ==
  (/\ call.outcome = "returned"
   /\ env.posConfig # Absent
   /\ call.adapterCalls > 0
   /\ call.adapterOks = 0)
    => /\ documents[call.docId].status = "completed"
       /\ documents[call.docId].syncStatus = "error"
       /\ PosRefsAsAtStart("suppliers")
       /\ PosRefsAsAtStart("inventory")

\* C3: a call whose transaction committed returns normally
C3_RelayNeverThrows ==
  (call.committed /\ call.pc = "done") => call.outcome = "returned"

\* C11: a call without a supplier name or without a user id fails at once:
\* the callback never ran (no read of the store), nothing was staged or
\* written, no adapter was called
C11_RejectBeforeTransaction ==
  (/\ call.pc # "idle"
   /\ (env.data.supplierName = Absent \/ env.data.userId = Absent))
    => /\ call.pc = "done"
       /\ call.outcome = "threw"
       /\ call.attempts = 0
       /\ call.readStore = Absent
       /\ call.writes = << >>
       /\ ~call.committed
       /\ call.adapterCalls = 0
       /\ Store = env.atStart

\* C11: a call for a known user and a document with line items, without a
\* supplier name, has failed
C11_Witness ==
  /\ env.calls > 0
  /\ env.data.userId # Absent
  /\ env.data.supplierName = Absent
  /\ env.data.products # << >>
  /\ call.outcome = "threw"

\* C12: when the supplier the name lookup found is gone at the
\* transaction.get that follows, that step ends the call with an error,
\* nothing staged and the store as it was; it does not go on to stage a new
\* supplier
C12_NoFallbackToCreate ==
  [][(/\ call.pc = "txGetSupplier"
      /\ call.existing # Absent
      /\ call.existing \notin DOMAIN suppliers
      /\ call'.pc # call.pc)
       => /\ call'.pc = "done"
          /\ call'.outcome = "threw"
          /\ call'.writes = << >>
          /\ call'.supplierId = Absent
          /\ ~call'.committed
          /\ Store' = Store
          /\ Store' = env'.atStart]_vars

\* C12: a call ended with an error at the transaction.get of a supplier that
\* the lookup of its first run had found and that was deleted since
C12_Witness ==
  /\ call.outcome = "threw"
  /\ call.attempts = 1
  /\ call.existing # Absent
  /\ call.existing \notin DOMAIN suppliers
  /\ call.readStore = Absent
  /\ SupplierByName(suppliers, env.data.supplierName) = Absent

\* the step in which the transaction of the call commits
Commits == call.pc = "commit" /\ call'.committed

NamedAsInCall == {s \in DOMAIN suppliers : suppliers[s].name = env.data.supplierName}

\* C28: a commit for a name a supplier of the store has adds the invoice's
\* totalAmount (0 when null) to that supplier's totalSpent and 1 to its
\* invoiceCount and creates no supplier; a commit for a name no supplier has
\* creates exactly one supplier with totalSpent = totalAmount and
\* invoiceCount = 1; the committed document's supplierId is that supplier's
C28_SupplierResolution ==
  [][Commits =>
       LET amount == IF env.data.totalAmount = NullAmount THEN 0
                     ELSE env.data.totalAmount
           sid == documents'[call'.docId].supplierId
       IN IF NamedAsInCall # {}
          THEN /\ DOMAIN suppliers' = DOMAIN suppliers
               /\ sid \in NamedAsInCall
               /\ suppliers'[sid].totalSpent = suppliers[sid].totalSpent + amount
               /\ suppliers'[sid].invoiceCount = suppliers[sid].invoiceCount + 1
               /\ \A o \in DOMAIN suppliers \ {sid} : suppliers'[o] = suppliers[o]
          ELSE /\ sid \notin DOMAIN suppliers
               /\ DOMAIN suppliers' = DOMAIN suppliers \cup {sid}
               /\ suppliers'[sid].name = env.data.supplierName
               /\ suppliers'[sid].totalSpent = amount
               /\ suppliers'[sid].invoiceCount = 1
               /\ \A o \in DOMAIN suppliers : suppliers'[o] = suppliers[o]]_vars

\* C28: an invoice of 7 was committed for acme, which had spent 5 on one
\* invoice
C28_Witness ==
  /\ call.committed
  /\ env.data.supplierName = "acme"
  /\ env.data.totalAmount = 7
  /\ DOMAIN suppliers = {"s1"}
  /\ suppliers["s1"].totalSpent = 12
  /\ suppliers["s1"].invoiceCount = 2
  /\ documents[call.docId].supplierId = "s1"

\* the write the callback staged for line item i: the supplier write comes
\* first
C29_WriteOf(i) == call.writes[i + 1]

C29_NewIds ==
  {C29_WriteOf(i).id : i \in {j \in DOMAIN env.data.products :
                                 C29_WriteOf(j).op = "set"}}

\* C29: in a transaction ready to commit, a line item whose reference is the
\* id of an inventory record is staged as an update of that record with
\* isActive true, every other line item as the creation of a record under a
\* fresh id no inventory record has, one id per such item; a commit makes the
\* inventory grow by the number of line items without such a reference
C29_LineItemUpsert ==
  [][/\ call.pc = "commit" =>
          /\ \A i \in DOMAIN env.data.products :
               LET item == env.data.products[i]
                   w == C29_WriteOf(i)
               IN /\ w.coll = "inventory"
                  /\ w.data.isActive
                  /\ IF item._originalId \in DOMAIN call.readStore.inventory
                     THEN w.op = "update" /\ w.id = item._originalId
                     ELSE w.op = "set"
                          /\ w.id \notin DOMAIN call.readStore.inventory
          /\ Cardinality(C29_NewIds) =
               Cardinality({i \in DOMAIN env.data.products :
                              env.data.products[i]._originalId
                                \notin DOMAIN call.readStore.inventory})
     /\ Commits =>
          Cardinality(DOMAIN inventory') =
            Cardinality(DOMAIN inventory)
              + Cardinality({i \in DOMAIN env.data.products :
                               env.data.products[i]._originalId
                                 \notin DOMAIN inventory})]_vars

\* the line items of the call are as the scan loader built them
FreshlyScanned ==
  /\ env.data.products # << >>
  /\ \A i \in DOMAIN env.data.products :
       env.data.products[i] = ScannedItem(i, env.data.products[i].catalogNumber)

\* C30: a transaction ready to commit for freshly scanned line items that
\* match no inventory record can commit, creates one new product per item
\* and writes a completed document whose snapshot refers to the new ids
C30_ScannedItemIsCreated ==
  (call.pc = "commit" /\ FreshlyScanned /\ ~Contention) =>
    /\ WritesOk(Store, call.writes)
    /\ call.record.status = "completed"
    /\ \A i \in DOMAIN env.data.products :
         /\ call.writes[i + 1].op = "set"
         /\ call.writes[i + 1].id \notin DOMAIN inventory
         /\ call.record.products[i].id = call.writes[i + 1].id

\* C31: the document a committed call wrote is completed, and it is paid when
\* the call's document type is receipt or invoiceReceipt and unpaid when it is
\* invoice or deliveryNote; the relay that follows does not change that
C31_PaymentStatusByDocType ==
  call.committed =>
    /\ documents[call.docId].status = "completed"
    /\ documents[call.docId].documentType = env.data.docType
    /\ documents[call.docId].paymentStatus =
         (IF env.data.docType \in {"receipt", "invoiceReceipt"} THEN "paid"
          ELSE "unpaid")

\* C31: a receipt was committed as paid and an earlier pending document of the
\* same id was replaced by it
C31_Witness ==
  /\ call.outcome = "returned"
  /\ env.data.docType = "receipt"
  /\ call.docId = TempInvoiceId
  /\ documents[call.docId].status = "completed"
  /\ documents[call.docId].paymentStatus = "paid"

\* the supplier of the call is in the store with a reference for the
\* configured POS system
C32_Linked(sups) ==
  /\ call.supplierId \in DOMAIN sups
  /\ env.posConfig \in DOMAIN sups[call.supplierId].posRefs

\* C32: when the relay reads a supplier that has an external id for the
\* configured system it goes on to the products without a supplier upsert;
\* when the supplier has none, the relay makes one supplier upsert, the first
\* adapter call of the relay, and goes on to the products only with the
\* returned id stored on the supplier; a product upsert or an expense is
\* attempted only while the supplier, if still in the store, holds the id the
\* relay goes on with
C32_RelayStepOne ==
  [][/\ (call.pc = "relaySupplierRead" /\ call' # call
          /\ call.supplierId \in DOMAIN suppliers) =>
          /\ env' = env
          /\ call'.adapterCalls = 0
          /\ IF C32_Linked(suppliers)
             THEN call'.pc \in {"relayProducts", "relayCatch"}
             ELSE call'.pc \in {"relaySupplierUpsert", "relayCatch"}
     /\ (call.pc = "relaySupplierUpsert" /\ call' # call) =>
          /\ call.adapterCalls = 0
          /\ call'.adapterCalls = 1
          /\ call'.pc \in {"relayProducts", "relayCatch"}
          /\ call'.pc = "relayProducts" =>
               /\ call'.adapterOks = 1
               /\ C32_Linked(suppliers')
               /\ suppliers'[call.supplierId].posRefs[env.posConfig] =
                    PosActionResult("ok").externalId
               /\ call'.posSupplierId = PosActionResult("ok").externalId
     /\ (call.pc # "relayProducts" /\ call.pc # "relaySupplierUpsert") =>
          env'.pos.contacts = env.pos.contacts
     /\ (env'.pos.products # env.pos.products
          \/ env'.pos.expenses # env.pos.expenses
          \/ (call.pc = "relayProducts" /\ call' # call)) =>
          /\ call.pc = "relayProducts"
          /\ env'.pos.contacts = env.pos.contacts
          /\ call.posSupplierId # Absent
          /\ call.supplierId \in DOMAIN suppliers =>
               /\ C32_Linked(suppliers)
               /\ suppliers[call.supplierId].posRefs[env.posConfig] =
                    call.posSupplierId]_vars

\* C32: the relay is about to upsert the first product after one successful
\* supplier upsert whose id is stored on the supplier
C32_Witness ==
  /\ call.pc = "relayProducts"
  /\ call.i = 0
  /\ Len(call.saved) > 0
  /\ call.adapterCalls = 1
  /\ call.adapterOks = 1
  /\ env.pos.contacts = {call.supplierId}
  /\ C32_Linked(suppliers)
  /\ suppliers[call.supplierId].posRefs[env.posConfig] = "ext-1"

\* C35: after a commit that followed a re-run of the callback, the document's
\* line-item snapshot and savedOrUpdatedProducts have one entry per line item
\* of the call, in order, each under the id of the inventory record the
\* committed writes created or updated for it
C35_RetryLeavesNoLeftovers ==
  (call.committed /\ call.attempts > 1) =>
    /\ Len(call.saved) = Len(env.data.products)
    /\ documents[call.docId].products = call.saved
    /\ \A i \in DOMAIN call.saved :
         /\ call.saved[i].id \in DOMAIN inventory
         /\ i \in DOMAIN env.data.products =>
              call.saved[i].catalogNumber = env.data.products[i].catalogNumber

\* the suppliers with the name both calls were made for
C36_Named ==
  {s \in DOMAIN suppliers : suppliers[s].name = env.data.supplierName}

\* C36: two finalize calls of one user for one supplier name never leave two
\* suppliers with that name; when both have committed for a name no supplier
\* had, one supplier has it, with invoiceCount 2 and the sum of both totals
C36_OneSupplierForConcurrentCalls ==
  /\ Cardinality(C36_Named) <= 1
  /\ (/\ call.committed
      /\ svc.result.outcome = "returned"
      /\ env.data.supplierName = "bolt") =>
       \E s \in C36_Named :
         /\ C36_Named = {s}
         /\ suppliers[s].invoiceCount = 2
         /\ suppliers[s].totalSpent =
              AmountOr0(env.data.totalAmount) + svc.args.totalAmount

\* the completed documents of a supplier, and the sum of their totals over
\* the documents from the k-th id on
C37_CompletedOf(docs, s) ==
  {d \in DOMAIN docs : docs[d].status = "completed" /\ docs[d].supplierId = s}

RECURSIVE C37_TotalOf(_, _, _)
C37_TotalOf(docs, s, k) ==
  IF k > Len(DocumentIdPool) THEN 0
  ELSE (IF DocumentIdPool[k] \in C37_CompletedOf(docs, s)
        THEN docs[DocumentIdPool[k]].totalAmount ELSE 0)
       + C37_TotalOf(docs, s, k + 1)

\* C37: every commit of finalize, also of a call repeated for the same
\* document, keeps the counters in step with the documents: the supplier's
\* invoiceCount grows by the number of completed documents it gained and its
\* totalSpent by the growth of the sum of their totals, and no other
\* supplier's counters or documents change
C37_CountersFollowDocuments ==
  [][Commits =>
       LET sid == documents'[call'.docId].supplierId
           known == sid \in DOMAIN suppliers
       IN /\ suppliers'[sid].invoiceCount
               - (IF known THEN suppliers[sid].invoiceCount ELSE 0)
             = Cardinality(C37_CompletedOf(documents', sid))
                 - Cardinality(C37_CompletedOf(documents, sid))
          /\ suppliers'[sid].totalSpent
               - (IF known THEN suppliers[sid].totalSpent ELSE 0)
             = C37_TotalOf(documents', sid, 1) - C37_TotalOf(documents, sid, 1)
          /\ \A o \in DOMAIN suppliers \ {sid} :
               /\ suppliers'[o] = suppliers[o]
               /\ C37_CompletedOf(documents', o) = C37_CompletedOf(documents, o)]_vars

\* C38: when a call ends with the document's syncStatus "success", the
\* supplier, unless deleted since, and every product of the document's
\* line-item snapshot have a posRefs entry for the configured system
C38_SuccessMeansAllSynced ==
  (/\ call.outcome = "returned"
   /\ env.posConfig # Absent
   /\ documents[call.docId].syncStatus = "success") =>
    /\ call.supplierId \in DOMAIN suppliers =>
         env.posConfig \in DOMAIN suppliers[call.supplierId].posRefs
    /\ \A i \in DOMAIN documents[call.docId].products :
         LET id == documents[call.docId].products[i].id
         IN /\ id \in DOMAIN inventory
            /\ env.posConfig \in DOMAIN inventory[id].posRefs

\* C39: when a call returns for a user with a POS system configured, the
\* document's syncStatus is "success" or "error"
C39_RelayOutcomeRecorded ==
  (call.outcome = "returned" /\ env.posConfig # Absent) =>
    documents[call.docId].syncStatus \in {"success", "error"}

\* C40: no step of updateProductService, deleteProductService or a finalize
\* call for another document changes the line items a completed document
\* embeds, or the document's being completed
C40_LineItemsAreSnapshot ==
  [][\A d \in DOMAIN documents :
       (documents[d].status = "completed" /\ ~(Commits /\ d = call'.docId)) =>
         /\ d \in DOMAIN documents'
         /\ documents'[d].status = "completed"
         /\ documents'[d].products = documents[d].products]_vars

\* C40: product p1 was saved at a new price by a finalize call for another
\* document, then given another catalog number and deleted, and the completed
\* document d1 still embeds it as it was
C40_Witness ==
  /\ call.committed
  /\ call.docId # "d1"
  /\ inventory["p1"].unitPrice = 1100
  /\ inventory["p1"].catalogNumber = "Z9"
  /\ ~inventory["p1"].isActive
  /\ documents["d1"].status = "completed"
  /\ documents["d1"].products[1] =
       [id |-> "p1", catalogNumber |-> "X1", barcode |-> "B1",
        unitPrice |-> 1000]

\* C13: the external system holds at most one expense per document
C13_OneExternalRecord ==
  \A d \in DOMAIN env.pos.expenses : env.pos.expenses[d] <= 1

\* C14: for a user without a POS system, a call whose transaction committed
\* makes no adapter call, leaves the posRefs of suppliers and products and
\* the posRefs and syncStatus of the document as the commit left them, and
\* does not fail
C14_NoPosNoRelay ==
  (env.posConfig = Absent /\ call.committed)
    => /\ call.adapterCalls = 0
       /\ env.pos = NoExternalRecords
       /\ PosRefsAsAtStart("suppliers")
       /\ PosRefsAsAtStart("inventory")
       /\ documents[call.docId].posRefs = EmptyMap
       /\ documents[call.docId].syncStatus = Absent
       /\ call.outcome # "threw"

====
